---- MODULE Spec2Model ----
(***************************************************************************)
(* Model of the adzuna client library.  The repository holds three         *)
(* iterations of the same design:                                          *)
(*   "request"  src/src/request.rs + src/src/models.rs: one builder type   *)
(*              per route, sharing the RequestBuilder trait's fetch;       *)
(*   "client"   src/src/client.rs: one generic RequestBuilder<T> with a    *)
(*              page field;                                                *)
(*   "lib"      src/src/lib.rs: the generic RequestBuilder<T> without a    *)
(*              page field.                                                *)
(* An Option<T> is modelled as a sequence of length at most one:           *)
(* None = <<>>, Some(v) = <<v>>.                                           *)
(***************************************************************************)
EXTENDS Integers, Sequences, FiniteSets, TLC

VARIABLES
    client,     \* the Client: app_id, app_key
    b,          \* the request builder (NoBuilder before the Client made one)
    lastArg,    \* history: per builder method, the argument of its last call
    locArgs,    \* history: the arguments of the location() calls, in call order
    ncalls,     \* history: number of builder calls made
    made,       \* history: the builder as the Client handed it out
    futures,    \* one record per fetch call, in call order: its stage and,
                \* while the body is awaited, the status received
    sent,       \* the GET request issued by the last fetch
    resp,       \* what the transport answered to the fetch that returned last
    result,     \* what that fetch returned (body_read: the types the body was
                \* decoded as); both None from the next fetch call on
    gets,       \* history: every GET request issued, in order
    outcomes,   \* history: how each fetch call that returned was resolved
    peers       \* builders created side by side from the one Client

vars == <<client, b, made, lastArg, locArgs, ncalls, futures, sent, resp,
          result, gets, outcomes, peers>>

\* ------------------------------------------------------------------ bounds

\* Builder calls per chain in the mixed specification Spec.
MaxCalls == 2
\* location() calls per chain in the location specification SpecLoc.
MaxLocCalls == 9
\* Builder calls around the fetch in the fetch specification SpecFetch.
MaxFetchCalls == 1
\* fetch calls on one builder.
MaxFetches == 2
\* Builder calls around the fetches in the re-fetch specification SpecRefetch.
MaxRefetchCalls == 1
\* Builder calls, over all the builders, in the specification SpecPeers.
MaxPeerCalls == 1
\* fetch calls, over all the builders, in the specification SpecPeers.
MaxPeerFetches == 2
\* country() calls per chain in the country specification SpecCountry.
MaxCountryCalls == 1
\* Calls of the one method in the repetition specification SpecRepeat.
MaxRepeatCalls == 3

\* ---------------------------------------------------------------- helpers

None == <<>>
Some(v) == <<v>>
Range(s) == {s[i] : i \in 1..Len(s)}

RECURSIVE Flatten(_)
Flatten(ss) == IF ss = <<>> THEN <<>> ELSE Head(ss) \o Flatten(Tail(ss))

\* ------------------------------------------------------- program constants

ROOT_URL == "https://api.adzuna.com/v1/api"
OK == 200
BAD_REQUEST == 400
LocationCap == 8

Impls == {"request", "client", "lib"}
Routes == {"version", "categories", "histogram", "history", "top_companies",
           "geodata", "search"}

Country == {"UnitedKingdom", "UnitedStates", "Austria", "Australia", "Belgium",
            "Brazil", "Canada", "Switzerland", "Germany", "Spain", "France",
            "India", "Italy", "Mexico", "Netherlands", "NewZealand", "Poland",
            "Russia", "Singapore", "SouthAfrica"}

to_code_nz(c) ==
    CASE c = "UnitedKingdom" -> "gb"
      [] c = "UnitedStates" -> "us"
      [] c = "Austria" -> "at"
      [] c = "Australia" -> "au"
      [] c = "Belgium" -> "be"
      [] c = "Brazil" -> "br"
      [] c = "Canada" -> "ca"
      [] c = "Switzerland" -> "ch"
      [] c = "Germany" -> "de"
      [] c = "Spain" -> "es"
      [] c = "France" -> "fr"
      [] c = "India" -> "in"
      [] c = "Italy" -> "it"
      [] c = "Mexico" -> "mx"
      [] c = "Netherlands" -> "nl"
      [] c = "NewZealand" -> "nz"
      [] c = "Poland" -> "pl"
      [] c = "Russia" -> "ru"
      [] c = "Singapore" -> "sg"
      [] c = "SouthAfrica" -> "za"

\* models.rs Country::to_code
to_code(c) ==
    CASE c = "UnitedKingdom" -> "gb"
      [] c = "UnitedStates" -> "us"
      [] c = "Austria" -> "at"
      [] c = "Australia" -> "au"
      [] c = "Belgium" -> "be"
      [] c = "Brazil" -> "br"
      [] c = "Canada" -> "ca"
      [] c = "Switzerland" -> "ch"
      [] c = "Germany" -> "de"
      [] c = "Spain" -> "es"
      [] c = "France" -> "fr"
      [] c = "India" -> "in"
      [] c = "Italy" -> "it"
      [] c = "Mexico" -> "mx"
      [] c = "Netherlands" -> "nl"
      [] c = "NewZealand" -> "nl"
      [] c = "Poland" -> "pl"
      [] c = "Russia" -> "ru"
      [] c = "Singapore" -> "sg"
      [] c = "SouthAfrica" -> "za"

\* lib.rs Country::to_code
lib_to_code(c) ==
    CASE c = "UnitedKingdom" -> "gb"
      [] c = "UnitedStates" -> "us"
      [] c = "Austria" -> "at"
      [] c = "Australia" -> "au"
      [] c = "Belgium" -> "be"
      [] c = "Brazil" -> "br"
      [] c = "Canada" -> "ca"
      [] c = "Switzerland" -> "ch"
      [] c = "Germany" -> "de"
      [] c = "Spain" -> "es"
      [] c = "France" -> "fr"
      [] c = "India" -> "in"
      [] c = "Italy" -> "it"
      [] c = "Mexico" -> "mx"
      [] c = "Netherlands" -> "nl"
      [] c = "NewZealand" -> "nl"
      [] c = "Poland" -> "pl"
      [] c = "Russia" -> "ru"
      [] c = "Singapore" -> "sg"
      [] c = "SouthAfrica" -> "za"

SortBy == {"Default", "Hybrid", "Date", "Salary", "Relevance"}

SortBy_to_string(s) ==
    CASE s = "Default" -> "default"
      [] s = "Hybrid" -> "hybrid"
      [] s = "Date" -> "date"
      [] s = "Salary" -> "salary"
      [] s = "Relevance" -> "relevance"

SortDirection == {"Up", "Down"}

SortDirection_to_string(s) ==
    CASE s = "Up" -> "up"
      [] s = "Down" -> "down"

\* ------------------------------------------------------------- Parameters

\* The Option fields of models.rs Parameters, in declaration order (the
\* flattened locations list comes first and is kept apart).
ParamFields == <<"category", "what", "months", "what_and", "what_phrase",
                 "what_or", "what_exclude", "title_only", "where",
                 "salary_include_unknown", "full_time", "part_time", "contract",
                 "permanent", "company", "distance", "results_per_page",
                 "max_days_old", "salary_min", "salary_max", "sort_dir",
                 "sort_by">>

LocationSlots == <<"location0", "location1", "location2", "location3",
                   "location4", "location5", "location6", "location7">>

\* The fields of lib.rs Parameters, in declaration order.  client.rs uses a
\* Parameters with the same location0..location7 slots.
SlotParamFields == <<"what", "months", "what_and", "what_phrase", "what_or",
                     "what_exclude", "title_only", "where",
                     "salary_include_unknown", "full_time", "part_time",
                     "contract", "permanent", "company", "distance",
                     "results_per_page", "max_days_old", "salary_min",
                     "salary_max", "sort_dir", "sort_by"
                   >> \o LocationSlots \o <<"category">>

NumericFields == {"months", "distance", "results_per_page", "max_days_old",
                  "salary_min", "salary_max"}

FlagFields == {"salary_include_unknown", "full_time", "part_time", "contract",
               "permanent"}

\* Parameters::default() of models.rs: no location, every field None.
Parameters_default ==
    [k \in Range(ParamFields) \cup {"locations"} |->
        IF k = "locations" THEN <<>> ELSE None]

\* Parameters::default() of the slot layout: every field None.
SlotParameters_default == [k \in Range(SlotParamFields) |-> None]

\* ---------------------------------------------------- builder construction

NoBuilder == [impl |-> "none"]

\* create_endpoint!: $name::new(client)
Endpoint_new(route) ==
    [impl |-> "request", endpoint |-> route,
     parameters |-> Parameters_default,
     search_country |-> Some(to_code("UnitedStates")),
     search_page |-> Some(1)]

\* client.rs RequestBuilder::<T>::new(client, endpoint); T is the name of the
\* type the answer is decoded into (the PhantomData field)
ClientBuilder_new(T, endpoint) ==
    [impl |-> "client", endpoint |-> endpoint, T |-> T,
     parameters |-> SlotParameters_default,
     search_country |-> None,
     search_page |-> Some(1)]

\* lib.rs RequestBuilder::<T>::new(client, endpoint): the struct has no page
\* field, search_page stays None and is never read.
LibBuilder_new(T, endpoint) ==
    [impl |-> "lib", endpoint |-> endpoint, T |-> T,
     parameters |-> SlotParameters_default,
     search_country |-> None,
     search_page |-> None]

\* ----------------------------------------------------------------- setters

SetParam_keep_first(bb, f, v) ==
    IF bb.parameters[f] = None THEN [bb EXCEPT !.parameters[f] = Some(v)] ELSE bb

\* self.parameters.f = Some(v)
SetParam(bb, f, v) == [bb EXCEPT !.parameters[f] = Some(v)]

country_resets_page(bb, c) ==
    [bb EXCEPT !.search_country = Some(to_code(c)), !.search_page = Some(1)]

\* request.rs country: search_country is a &'static str
country(bb, c) == [bb EXCEPT !.search_country = Some(to_code(c))]

\* lib.rs country: the table of lib.rs
lib_country(bb, c) == [bb EXCEPT !.search_country = Some(lib_to_code(c))]

location_no_cap(bb, loc) ==
    [bb EXCEPT !.parameters.locations = Append(@, loc)]

\* request.rs location: push while fewer than 8 are stored
location(bb, loc) ==
    IF Len(bb.parameters.locations) < LocationCap
    THEN [bb EXCEPT !.parameters.locations = Append(@, loc)]
    ELSE bb

RECURSIVE FirstFree(_, _)
\* index of the first None slot at or after i; 0 when all are taken
FirstFree(p, i) ==
    IF i > Len(LocationSlots) THEN 0
    ELSE IF p[LocationSlots[i]] = None THEN i
    ELSE FirstFree(p, i + 1)

slot_location_overflow(bb, loc) ==
    LET i == FirstFree(bb.parameters, 1)
    IN SetParam(bb, LocationSlots[IF i = 0 THEN Len(LocationSlots) ELSE i], loc)

\* client.rs / lib.rs location: the if / else-if chain over location0..7
slot_location(bb, loc) ==
    LET i == FirstFree(bb.parameters, 1)
    IN IF i = 0 THEN bb ELSE SetParam(bb, LocationSlots[i], loc)

category(bb, v) == SetParam(bb, "category", v)

page_unchecked(bb, n) == [bb EXCEPT !.search_page = Some(n)]

page(bb, n) == IF n > 0 THEN [bb EXCEPT !.search_page = Some(n)] ELSE bb

what(bb, v) == SetParam(bb, "what", v)
months(bb, n) == SetParam(bb, "months", n)
what_and(bb, v) == SetParam(bb, "what_and", v)
what_phrase(bb, v) == SetParam(bb, "what_phrase", v)
what_or(bb, v) == SetParam(bb, "what_or", v)
what_exclude(bb, v) == SetParam(bb, "what_exclude", v)
place(bb, v) == SetParam(bb, "where", v)
title_only(bb, v) == SetParam(bb, "title_only", v)
salary_include_unknown(bb) == SetParam(bb, "salary_include_unknown", "1")
full_time_toggle(bb) ==
    IF bb.parameters["full_time"] = None THEN SetParam(bb, "full_time", "1")
    ELSE [bb EXCEPT !.parameters["full_time"] = None]
full_time(bb) == SetParam(bb, "full_time", "1")
part_time(bb) == SetParam(bb, "part_time", "1")
contract(bb) == SetParam(bb, "contract", "1")
permanent(bb) == SetParam(bb, "permanent", "1")
company(bb, v) == SetParam(bb, "company", v)
distance(bb, n) == SetParam(bb, "distance", n)

results_per_page_cleared_by_zero(bb, n) ==
    IF n > 0 THEN SetParam(bb, "results_per_page", n)
    ELSE [bb EXCEPT !.parameters["results_per_page"] = None]

\* request.rs / client.rs results_per_page: zero is ignored
results_per_page(bb, n) ==
    IF n > 0 THEN SetParam(bb, "results_per_page", n) ELSE bb

\* lib.rs results_per_page: stored unconditionally
lib_results_per_page(bb, n) == SetParam(bb, "results_per_page", n)

max_days_old(bb, n) == SetParam(bb, "max_days_old", n)
salary_min(bb, n) == SetParam(bb, "salary_min", n)
salary_max_clamped(bb, n) ==
    IF n > 0 THEN SetParam(bb, "salary_max", n) ELSE bb

salary_max(bb, n) == SetParam(bb, "salary_max", n)
sort_by_resets_dir(bb, s) ==
    [bb EXCEPT !.parameters["sort_by"] = Some(SortBy_to_string(s)),
               !.parameters["sort_dir"] = None]

sort_by(bb, s) == SetParam(bb, "sort_by", SortBy_to_string(s))
sort_dir(bb, s) == SetParam(bb, "sort_dir", SortDirection_to_string(s))

\* lib.rs flag setters take the value as an argument
lib_flag(bb, f, v) == SetParam(bb, f, v)

\* ------------------------------------------------- Client endpoint methods

\* Client::new(app_id, app_key)
Client_new(app_id, app_key) == [app_id |-> app_id, app_key |-> app_key]

\* client.rs: the T of each Client method (request.rs: type Response of each
\* request type, the same types)
Response_name(route) ==
    CASE route = "version" -> "Version"
      [] route = "categories" -> "Categories"
      [] route = "histogram" -> "SalaryHistogram"
      [] route = "history" -> "HistoricalSalary"
      [] route = "top_companies" -> "TopCompanies"
      [] route = "geodata" -> "JobGeoData"
      [] route = "search" -> "JobSearchResults"

\* lib.rs: the T of each Client method
lib_Response_name(route) ==
    CASE route = "version" -> "Version"
      [] route = "categories" -> "Categories"
      [] route = "histogram" -> "lib_HistogramResponse"
      [] route = "history" -> "lib_HistoryResponse"
      [] route = "top_companies" -> "lib_TopCompaniesResponse"
      [] route = "geodata" -> "lib_GeodataResponse"
      [] route = "search" -> "lib_SearchResponse"

\* client.rs, lib.rs Client::query::<T>(endpoint): RequestBuilder::new
QueryBuilder(impl, T, endpoint) ==
    IF impl = "client" THEN ClientBuilder_new(T, endpoint)
    ELSE LibBuilder_new(T, endpoint)

\* client.rs Client::api_version .. Client::search: query(endpoint), then the
\* default country for every route but version.
Client_endpoint(route) ==
    IF route = "version"
    THEN QueryBuilder("client", Response_name(route), route)
    ELSE country(QueryBuilder("client", Response_name(route), route),
                 "UnitedStates")

\* lib.rs Client::api_version .. Client::search
Lib_endpoint(route) ==
    IF route = "version"
    THEN QueryBuilder("lib", lib_Response_name(route), route)
    ELSE lib_country(QueryBuilder("lib", lib_Response_name(route), route),
                     "UnitedStates")

NewBuilder(impl, route) ==
    CASE impl = "request" -> Endpoint_new(route)
      [] impl = "client" -> Client_endpoint(route)
      [] impl = "lib" -> Lib_endpoint(route)

\* ------------------------------------------------ methods of each builder

StringMethods == {"category", "what", "what_and", "what_phrase", "what_or",
                  "what_exclude", "place", "where", "title_only", "company"}
NumericMethods == {"months", "distance", "results_per_page", "max_days_old",
                   "salary_min", "salary_max", "page"}
FlagMethods == FlagFields

SearchOnlyMethods ==
    {"page", "what_and", "what_phrase", "what_or", "what_exclude", "place",
     "title_only", "company", "distance", "results_per_page", "max_days_old",
     "salary_min", "salary_max", "sort_by", "sort_dir"} \cup FlagMethods

\* request.rs: the inherent methods of each request type
RequestMethods(route) ==
    CASE route = "version" -> {}
      [] route = "categories" -> {"country"}
      [] route = "histogram" -> {"what", "country", "location", "category"}
      [] route = "history" -> {"months", "country", "location", "category"}
      [] route = "top_companies" -> {"what", "country", "location", "category"}
      [] route = "geodata" -> {"country", "location", "category"}
      [] route = "search" ->
            {"what", "country", "location", "category"} \cup SearchOnlyMethods

\* client.rs: impl<'a, T> RequestBuilder<'a, T>, the same for every T
ClientMethods ==
    {"location", "category", "country", "what", "months"} \cup SearchOnlyMethods

\* lib.rs: impl<'a, T> RequestBuilder<'a, T>; no page, where instead of place
LibMethods == (ClientMethods \ {"page", "place"}) \cup {"where"}

Methods(bb) ==
    CASE bb.impl = "request" -> RequestMethods(bb.endpoint)
      [] bb.impl = "client" -> ClientMethods
      [] bb.impl = "lib" -> LibMethods
      [] OTHER -> {}

\* The argument values tried for each parameter type.
StrArgs == {"a", "b"}
\* The methods tried with both strings; the other string setters with "a".
TwoStringMethods == {"what", "place", "where", "location"}
NumArgs == {0, 1, 2}
\* The setters with a zero check are tried with every number, the other
\* numeric setters with zero and a positive number.
CheckedNumericMethods == {"page", "results_per_page"}
CountryArgs == {"UnitedStates", "UnitedKingdom", "NewZealand"}
LibFlagArgs == {"1", "0"}
NoArg == "()"

Args(bb, m) ==
    CASE m \in TwoStringMethods -> StrArgs
      [] m \in StringMethods -> {"a"}
      [] m \in CheckedNumericMethods -> NumArgs
      [] m \in NumericMethods -> {0, 2}
      [] m = "country" -> CountryArgs
      [] m = "sort_by" -> SortBy
      [] m = "sort_dir" -> SortDirection
      [] m \in FlagMethods -> IF bb.impl = "lib" THEN LibFlagArgs ELSE {NoArg}

\* The call bb.m(a).
Apply(bb, m, a) ==
    CASE m = "country" ->
            IF bb.impl = "lib" THEN lib_country(bb, a) ELSE country(bb, a)
      [] m = "location" ->
            IF bb.impl = "request" THEN location(bb, a) ELSE slot_location(bb, a)
      [] m = "category" -> category(bb, a)
      [] m = "page" -> page(bb, a)
      [] m = "what" -> what(bb, a)
      [] m = "months" -> months(bb, a)
      [] m = "what_and" -> what_and(bb, a)
      [] m = "what_phrase" -> what_phrase(bb, a)
      [] m = "what_or" -> what_or(bb, a)
      [] m = "what_exclude" -> what_exclude(bb, a)
      [] m \in {"place", "where"} -> place(bb, a)
      [] m = "title_only" -> title_only(bb, a)
      [] m = "company" -> company(bb, a)
      [] m = "distance" -> distance(bb, a)
      [] m = "results_per_page" ->
            IF bb.impl = "lib" THEN lib_results_per_page(bb, a)
            ELSE results_per_page(bb, a)
      [] m = "max_days_old" -> max_days_old(bb, a)
      [] m = "salary_min" -> salary_min(bb, a)
      [] m = "salary_max" -> salary_max(bb, a)
      [] m = "sort_by" -> sort_by(bb, a)
      [] m = "sort_dir" -> sort_dir(bb, a)
      [] m \in FlagMethods /\ bb.impl = "lib" -> lib_flag(bb, m, a)
      [] m = "salary_include_unknown" -> salary_include_unknown(bb)
      [] m = "full_time" -> full_time(bb)
      [] m = "part_time" -> part_time(bb)
      [] m = "contract" -> contract(bb)
      [] m = "permanent" -> permanent(bb)

\* ----------------------------------------------------------- serialization

\* Display of a field value: usize fields are printed in decimal.
FieldString(f, v) == IF f \in NumericFields THEN ToString(v) ELSE v

SerializeOption_empty(f, opt) ==
    IF opt = None THEN << <<f, "">> >> ELSE << <<f, FieldString(f, opt[1])>> >>

\* serde_urlencoded on an Option field: None appends no pair.
SerializeOption(f, opt) ==
    IF opt = None THEN <<>> ELSE << <<f, FieldString(f, opt[1])>> >>

\* models.rs location_serialize: one entry location{i} per stored location
location_serialize(locations) ==
    [i \in 1..Len(locations) |->
        <<"location" \o ToString(i - 1), locations[i]>>]

\* #[derive(Serialize)] of models.rs Parameters
Parameters_serialize(p) ==
    location_serialize(p.locations)
    \o Flatten([i \in 1..Len(ParamFields) |->
                    SerializeOption(ParamFields[i], p[ParamFields[i]])])

\* #[derive(Serialize)] of the slot layout
SlotParameters_serialize(p) ==
    Flatten([i \in 1..Len(SlotParamFields) |->
                SerializeOption(SlotParamFields[i], p[SlotParamFields[i]])])

auth_params_swapped(cl) == << <<"app_id", cl.app_key>>, <<"app_key", cl.app_id>> >>

auth_params(cl) == << <<"app_id", cl.app_id>>, <<"app_key", cl.app_key>> >>

\* .query(&auth_params).query(parameters): the pairs of the query string
Query(bb, cl) ==
    auth_params(cl)
    \o (IF bb.impl = "request"
        THEN Parameters_serialize(bb.parameters)
        ELSE SlotParameters_serialize(bb.parameters))

\* -------------------------------------------------------------------- URL

\* request.rs get_request_url of each request type
get_request_url(bb) ==
    CASE bb.endpoint = "version" -> "/version"
      [] bb.endpoint = "search" ->
            "/jobs/" \o bb.search_country[1] \o "/search/"
                \o ToString(bb.search_page[1])
      [] OTHER -> "/jobs/" \o bb.search_country[1] \o "/" \o bb.endpoint

\* client.rs fetch: the url
client_request_url(bb) ==
    IF bb.search_country # None
    THEN "/jobs/" \o bb.search_country[1] \o "/" \o bb.endpoint
            \o (IF bb.search_page # None
                THEN "/" \o ToString(bb.search_page[1]) ELSE "")
    ELSE "/" \o bb.endpoint

\* lib.rs fetch: the url
lib_request_url(bb) ==
    IF bb.search_country # None
    THEN "/jobs/" \o bb.search_country[1] \o "/" \o bb.endpoint
    ELSE "/" \o bb.endpoint

Url(bb) ==
    ROOT_URL \o (CASE bb.impl = "request" -> get_request_url(bb)
                   [] bb.impl = "client" -> client_request_url(bb)
                   [] bb.impl = "lib" -> lib_request_url(bb))

\* -------------------------------------------------------- response decoding

\* A JSON value is a pair <<tag, content>> with tag one of "str", "num" (an
\* integer), "frac" (a number with a fraction), "bool", "null", "arr" (content:
\* the sequence of elements) and "obj" (content: a function from keys to
\* values).  A body is either not JSON at all or one JSON value.
NotJson == [json |-> FALSE, value |-> <<"null", 0>>]
Json(v) == [json |-> TRUE, value |-> v]
JsonObject(o) == Json(<<"obj", o>>)
JsonArray(vs) == Json(<<"arr", vs>>)

\* The kinds of deserialized values.
String == <<"String">>
u8 == <<"u8">>
usize == <<"usize">>
u64 == <<"u64">>
f64 == <<"f64">>
Vec(kind) == <<"Vec", kind>>
HashMap(kind) == <<"HashMap", kind>>
Struct(name) == <<"struct", name>>

\* A deserialized struct: its fields as <<key, kind, presence>>, in the order
\* of declaration.  "req": the key must be there; "opt": an Option<T> field,
\* for which a missing key or a null gives None; "default":
\* #[serde(default)], a missing key gives None and the field's own decoder
\* sees everything else.
ApiException_type ==
    << <<"exception", String, "req">>, <<"doc", String, "req">>,
       <<"display", String, "req">> >>

\* models.rs Job
Job_type ==
    << <<"id", String, "req">>, <<"created", String, "req">>,
       <<"title", String, "req">>, <<"description", String, "req">>,
       <<"redirect_url", String, "req">>, <<"latitude", f64, "req">>,
       <<"longitude", f64, "req">>, <<"category", Struct("Category"), "req">>,
       <<"location", Struct("LocationDetail"), "req">>,
       <<"salary_min", f64, "req">>, <<"salary_max", f64, "req">>,
       <<"salary_is_predicted", <<"string_bool">>, "req">>,
       <<"company", Struct("Company"), "req">>,
       <<"contract_type", <<"decode_contract_type">>, "default">>,
       <<"contract_time", <<"decode_contract_time">>, "default">>,
       <<"adref", String, "req">> >>

\* lib.rs Job
lib_Job_type ==
    << <<"id", String, "req">>, <<"created", String, "req">>,
       <<"title", String, "req">>, <<"description", String, "req">>,
       <<"full_description", String, "req">>,
       <<"redirect_url", String, "req">>, <<"latitude", f64, "req">>,
       <<"longitude", f64, "req">>, <<"category", Struct("Category"), "req">>,
       <<"location", Struct("lib_LocationDetail"), "req">>,
       <<"salary_min", u64, "req">>, <<"salary_max", u64, "req">>,
       <<"salary_is_predicted", u64, "req">>,
       <<"company", Struct("lib_Company"), "req">>,
       <<"contract_type", String, "req">>,
       <<"contract_time", String, "req">> >>

\* The structs of models.rs and (lib_) of lib.rs, by name.
Struct_type(name) ==
    CASE name = "ApiException" -> ApiException_type
      [] name = "Version" ->
            << <<"api_version", u8, "req">>,
               <<"software_version", String, "req">> >>
      [] name = "Company" ->
            << <<"display_name", String, "opt">>,
               <<"canonical_name", String, "opt">>, <<"count", usize, "opt">>,
               <<"average_salary", usize, "opt">> >>
      [] name = "TopCompanies" ->
            << <<"leaderboard", Vec(Struct("Company")), "opt">> >>
      [] name = "Category" ->
            << <<"tag", String, "req">>, <<"label", String, "req">> >>
      [] name = "Categories" ->
            << <<"results", Vec(Struct("Category")), "req">> >>
      [] name = "HistoricalSalary" -> << <<"month", HashMap(f64), "opt">> >>
      [] name = "SalaryHistogram" ->
            << <<"histogram", HashMap(usize), "opt">> >>
      [] name = "LocationDetail" ->
            << <<"area", Vec(String), "opt">>,
               <<"display_name", String, "opt">> >>
      [] name = "LocationJobs" ->
            << <<"count", usize, "opt">>,
               <<"location", Struct("LocationDetail"), "opt">> >>
      [] name = "JobGeoData" ->
            << <<"locations", Vec(Struct("LocationJobs")), "opt">> >>
      [] name = "Job" -> Job_type
      [] name = "JobSearchResults" ->
            << <<"results", Vec(Struct("Job")), "req">>,
               <<"count", usize, "req">>, <<"mean", f64, "req">> >>
      [] name = "lib_Company" ->
            << <<"count", usize, "req">>, <<"canonical_name", String, "req">>,
               <<"average_salary", usize, "req">>,
               <<"display_name", String, "req">> >>
      [] name = "lib_TopCompaniesResponse" ->
            << <<"leaderboard", Vec(Struct("lib_Company")), "req">> >>
      [] name = "lib_HistoryResponse" ->
            << <<"month", f64, "req">>, <<"what", String, "req">>,
               <<"location", String, "req">> >>
      [] name = "lib_HistogramResponse" ->
            << <<"location", String, "req">>, <<"histogram", f64, "req">> >>
      [] name = "lib_LocationDetail" ->
            << <<"area", Vec(String), "req">>,
               <<"display_name", String, "req">> >>
      [] name = "lib_Location" ->
            << <<"count", usize, "req">>,
               <<"location", Struct("lib_LocationDetail"), "req">> >>
      [] name = "lib_GeodataResponse" ->
            << <<"locations", Vec(Struct("lib_Location")), "req">> >>
      [] name = "lib_Job" -> lib_Job_type
      [] name = "lib_SearchResponse" ->
            << <<"results", Vec(Struct("lib_Job")), "req">>,
               <<"mean", f64, "req">> >>

\* request.rs: type Response of each request type
Response_type(route) == Struct_type(Response_name(route))

\* models.rs string_bool: the flag is true for the string "1" only
string_bool(buf) == buf = "1"

\* models.rs decode_contract_type, on the string given
decode_contract_type(option) ==
    CASE option = "permanent" -> Some("Permanent")
      [] option = "contract" -> Some("Contract")
      [] OTHER -> None

\* models.rs decode_contract_time, on the string given
decode_contract_time(option) ==
    CASE option = "full_time" -> Some("FullTime")
      [] option = "part_time" -> Some("PartTime")
      [] OTHER -> None

RECURSIVE DecodeValue(_, _)
RECURSIVE DecodeStruct(_, _)
RECURSIVE DecodeStructSeq(_, _)
RECURSIVE DecodeSeq(_, _)

\* Deserialize of one value as the given kind: Some(value), or None when the
\* deserializer reports an error.  A struct is read from an object by key or
\* from an array by position.
DecodeValue(kind, v) ==
    CASE kind[1] = "String" -> IF v[1] = "str" THEN Some(v[2]) ELSE None
      [] kind[1] = "f64" -> IF v[1] \in {"num", "frac"} THEN Some(v[2]) ELSE None
      [] kind[1] \in {"usize", "u64"} ->
            IF v[1] = "num" /\ v[2] >= 0 THEN Some(v[2]) ELSE None
      [] kind[1] = "u8" ->
            IF v[1] = "num" /\ v[2] >= 0 /\ v[2] <= 255 THEN Some(v[2]) ELSE None
      [] kind[1] = "string_bool" ->
            IF v[1] = "str" THEN Some(string_bool(v[2])) ELSE None
      [] kind[1] = "decode_contract_type" ->
            IF v[1] = "str" THEN Some(decode_contract_type(v[2]))
            ELSE IF v[1] = "null" THEN Some(None) ELSE None
      [] kind[1] = "decode_contract_time" ->
            IF v[1] = "str" THEN Some(decode_contract_time(v[2]))
            ELSE IF v[1] = "null" THEN Some(None) ELSE None
      [] kind[1] = "Vec" ->
            IF v[1] = "arr" THEN DecodeSeq(kind[2], v[2]) ELSE None
      [] kind[1] = "HashMap" ->
            IF v[1] = "obj"
                /\ \A k \in DOMAIN v[2] : DecodeValue(kind[2], v[2][k]) # None
            THEN Some([k \in DOMAIN v[2] |-> DecodeValue(kind[2], v[2][k])[1]])
            ELSE None
      [] kind[1] = "struct" ->
            IF v[1] = "obj" THEN DecodeStruct(Struct_type(kind[2]), v[2])
            ELSE IF v[1] = "arr" THEN DecodeStructSeq(Struct_type(kind[2]), v[2])
            ELSE None

DecodeSeq_first(kind, vs) ==
    IF vs = <<>> THEN Some(<<>>)
    ELSE IF DecodeValue(kind, vs[1]) # None
    THEN Some(<<DecodeValue(kind, vs[1])[1]>>)
    ELSE None

\* Deserialize of the elements of an array, in order; one error fails it all.
DecodeSeq(kind, vs) ==
    IF \A i \in 1..Len(vs) : DecodeValue(kind, vs[i]) # None
    THEN Some([i \in 1..Len(vs) |-> DecodeValue(kind, vs[i])[1]])
    ELSE None

\* #[derive(Deserialize)] visit_map: a struct with the fields T from the
\* JSON object o; keys T does not name are ignored.
DecodeStruct(T, o) ==
    LET field(f) ==
            IF f[1] \notin DOMAIN o
            THEN IF f[3] = "req" THEN None ELSE Some(None)
            ELSE IF f[3] = "opt" /\ o[f[1]][1] = "null" THEN Some(None)
            ELSE LET d == DecodeValue(f[2], o[f[1]])
                 IN IF d = None THEN None
                    ELSE IF f[3] = "opt" THEN Some(d) ELSE d
    IN IF \A i \in 1..Len(T) : field(T[i]) # None
       THEN Some([k \in {T[i][1] : i \in 1..Len(T)} |->
                    field(T[CHOOSE i \in 1..Len(T) : T[i][1] = k])[1]])
       ELSE None

\* #[derive(Deserialize)] visit_seq: a struct with the fields T from the
\* JSON array vs, element i for field i.  An element that is not there is an
\* error but for a #[serde(default)] field; an array longer than T is an
\* error of the JSON deserializer.
DecodeStructSeq(T, vs) ==
    LET field(i) ==
            IF i > Len(vs)
            THEN IF T[i][3] = "default" THEN Some(None) ELSE None
            ELSE IF T[i][3] = "opt" /\ vs[i][1] = "null" THEN Some(None)
            ELSE LET d == DecodeValue(T[i][2], vs[i])
                 IN IF d = None THEN None
                    ELSE IF T[i][3] = "opt" THEN Some(d) ELSE d
    IN IF Len(vs) <= Len(T) /\ \A i \in 1..Len(T) : field(i) # None
       THEN Some([k \in {T[i][1] : i \in 1..Len(T)} |->
                    field(CHOOSE i \in 1..Len(T) : T[i][1] = k)[1]])
       ELSE None

\* response.json::<T>(): Some(record) when the body is JSON that T
\* deserializes from.
Decode(T, body) ==
    IF ~body.json THEN None
    ELSE IF body.value[1] = "obj" THEN DecodeStruct(T, body.value[2])
    ELSE IF body.value[1] = "arr" THEN DecodeStructSeq(T, body.value[2])
    ELSE None

\* ------------------------------------------------------------------ fetch

\* Result<Response, E>.  E is AdzunaError in request.rs and a bare StatusCode
\* in client.rs and lib.rs, which have no api_error to give.
Ok(v, reads) ==
    [ok |-> TRUE, value |-> Some(v), http_status |-> None, api_error |-> None,
     body_read |-> reads]
Err(api_error, http_status, reads) ==
    [ok |-> FALSE, value |-> None, http_status |-> Some(http_status),
     api_error |-> api_error, body_read |-> reads]

\* AdzunaError::new
AdzunaError_new(api_error, http_status, reads) ==
    Err(api_error, http_status, reads)
\* AdzunaError::from_status
AdzunaError_from_status(http_status, reads) == Err(None, http_status, reads)

\* What send().await gives: an error (no response obtained; reqwest gives such
\* an error no status), or a response with a status and a body.
TransportError == [kind |-> "error", status |-> None]
Response(status, body) == [kind |-> "response", status |-> status, body |-> body]

\* The request fetch builds: url and query pairs.
fetch_request(bb, cl) == [url |-> Url(bb), query |-> Query(bb, cl)]

send_twice(log, req) == Append(Append(log, req), req)

\* request.send(): the one place of fetch that issues a request
send(log, req) == Append(log, req)

\* The state a fetch call ends in: Ok(..) is Succeeded, Err(..) is Failed.
Resolution(r) == IF r.ok THEN "Succeeded" ELSE "Failed"

fetch_status_lost(bb, o) ==
    IF o.kind = "error"
    THEN AdzunaError_from_status(
            IF o.status # None THEN o.status[1] ELSE BAD_REQUEST, <<>>)
    ELSE IF o.status # OK
    THEN AdzunaError_new(Decode(ApiException_type, o.body), BAD_REQUEST,
                         <<"ApiException">>)
    ELSE LET v == Decode(Response_type(bb.endpoint), o.body)
         IN IF v # None THEN Ok(v[1], <<"Response">>)
            ELSE AdzunaError_from_status(BAD_REQUEST, <<"Response">>)

fetch_error_with_envelope(bb, o) ==
    IF o.kind = "error"
    THEN AdzunaError_new(Decode(ApiException_type, NotJson), BAD_REQUEST,
                         <<"ApiException">>)
    ELSE IF o.status # OK
    THEN AdzunaError_new(Decode(ApiException_type, o.body), o.status,
                         <<"ApiException">>)
    ELSE LET v == Decode(Response_type(bb.endpoint), o.body)
         IN IF v # None THEN Ok(v[1], <<"Response">>)
            ELSE AdzunaError_from_status(BAD_REQUEST, <<"Response">>)

fetch_decode_failure_keeps_answer(bb, o) ==
    IF o.kind = "error"
    THEN AdzunaError_from_status(
            IF o.status # None THEN o.status[1] ELSE BAD_REQUEST, <<>>)
    ELSE IF o.status # OK
    THEN AdzunaError_new(Decode(ApiException_type, o.body), o.status,
                         <<"ApiException">>)
    ELSE LET v == Decode(Response_type(bb.endpoint), o.body)
         IN IF v # None THEN Ok(v[1], <<"Response">>)
            ELSE AdzunaError_new(Decode(ApiException_type, o.body), o.status,
                                 <<"Response", "ApiException">>)

fetch_ok_on_any_200(bb, o) ==
    IF o.kind = "error"
    THEN AdzunaError_from_status(
            IF o.status # None THEN o.status[1] ELSE BAD_REQUEST, <<>>)
    ELSE IF o.status # OK
    THEN AdzunaError_new(Decode(ApiException_type, o.body), o.status,
                         <<"ApiException">>)
    ELSE Ok(Decode(Response_type(bb.endpoint), o.body), <<"Response">>)

\* request.rs RequestBuilder::fetch, from the answer of send() on
fetch(bb, o) ==
    IF o.kind = "error"
    THEN AdzunaError_from_status(
            IF o.status # None THEN o.status[1] ELSE BAD_REQUEST, <<>>)
    ELSE IF o.status # OK
    THEN AdzunaError_new(Decode(ApiException_type, o.body), o.status,
                         <<"ApiException">>)
    ELSE LET v == Decode(Response_type(bb.endpoint), o.body)
         IN IF v # None THEN Ok(v[1], <<"Response">>)
            ELSE AdzunaError_from_status(BAD_REQUEST, <<"Response">>)

\* client.rs RequestBuilder::fetch, from the answer of send() on
client_fetch(bb, o) ==
    IF o.kind = "error"
    THEN Err(None, IF o.status # None THEN o.status[1] ELSE BAD_REQUEST, <<>>)
    ELSE IF o.status # OK
    THEN Err(None, o.status, <<>>)
    ELSE LET v == Decode(Struct_type(bb.T), o.body)
         IN IF v # None THEN Ok(v[1], <<"Response">>)
            ELSE Err(None, BAD_REQUEST, <<"Response">>)

\* lib.rs RequestBuilder::fetch, from the answer of send() on
lib_fetch(bb, o) ==
    IF o.kind = "error"
    THEN Err(None, IF o.status # None THEN o.status[1] ELSE BAD_REQUEST, <<>>)
    ELSE IF o.status # OK
    THEN Err(None, o.status, <<>>)
    ELSE LET v == Decode(Struct_type(bb.T), o.body)
         IN IF v # None THEN Ok(v[1], <<"Response">>)
            ELSE Err(None, BAD_REQUEST, <<"Response">>)

FetchResult(bb, o) ==
    CASE bb.impl = "request" -> fetch(bb, o)
      [] bb.impl = "client" -> client_fetch(bb, o)
      [] bb.impl = "lib" -> lib_fetch(bb, o)

\* ------------------------------------------------------ the server's answers

Statuses == {200, 400, 401}

Envelope ==
    [k \in {"exception", "doc", "display"} |->
        <<"str", CASE k = "exception" -> "AUTH_FAIL"
                   [] k = "doc" -> "https://api.adzuna.com/v1/doc"
                   [] k = "display" -> "Authorisation failed">>]

VersionBody ==
    [k \in {"api_version", "software_version"} |->
        IF k = "api_version" THEN <<"num", 1>> ELSE <<"str", "v1">>]

\* The same two as arrays: the values in the order of the struct's fields.
VersionArray == << <<"num", 1>>, <<"str", "v1">> >>
EnvelopeArray ==
    << <<"str", "AUTH_FAIL">>, <<"str", "https://api.adzuna.com/v1/doc">>,
       <<"str", "Authorisation failed">> >>

\* A job record as the API sends it: salary_is_predicted is the string flag.
JobJson(id, predicted) ==
    [k \in {"id", "created", "title", "description", "redirect_url",
            "latitude", "longitude", "category", "location", "salary_min",
            "salary_max", "salary_is_predicted", "company", "contract_time",
            "adref", "__CLASS__"} |->
        CASE k = "id" -> <<"str", id>>
          [] k \in {"latitude", "longitude"} -> <<"frac", "30.27">>
          [] k \in {"salary_min", "salary_max"} -> <<"num", 50000>>
          [] k = "salary_is_predicted" -> predicted
          [] k = "category" ->
                <<"obj", [c \in {"tag", "label"} |-> <<"str", "it-jobs">>]>>
          [] k = "location" ->
                <<"obj", [c \in {"area", "display_name"} |->
                    IF c = "area"
                    THEN <<"arr", << <<"str", "US">>, <<"str", "Austin">> >> >>
                    ELSE <<"str", "Austin">>]>>
          [] k = "company" ->
                <<"obj", [c \in {"display_name"} |-> <<"str", "Acme">>]>>
          [] k = "contract_time" -> <<"str", "full_time">>
          [] OTHER -> <<"str", k>>]

\* The job records 1..n; every second one has a predicted salary.
Jobs(n) ==
    [i \in 1..n |->
        <<"obj", JobJson(ToString(i), <<"str", IF i % 2 = 0 THEN "1" ELSE "0">>)>>]

\* A search answer holding the given records and the given total.
SearchBodyOf(jobs, count) ==
    [k \in {"results", "count", "mean", "__CLASS__"} |->
        CASE k = "results" -> <<"arr", jobs>>
          [] k = "count" -> <<"num", count>>
          [] k = "mean" -> <<"num", 0>>
          [] k = "__CLASS__" -> <<"str", "Adzuna::API::Response::JobSearchResults">>]

SearchBody == SearchBodyOf(<<>>, 0)

\* A search answer whose one record gives salary_is_predicted as a number.
BadJobBody ==
    SearchBodyOf(<< <<"obj", JobJson("1", <<"num", 1>>)>> >>, 1)

\* The bodies the server is made to answer with.
BodySamples ==
    <<NotJson, JsonObject(<<>>), JsonObject(Envelope), JsonObject(VersionBody),
      JsonObject(SearchBody), JsonObject(SearchBodyOf(Jobs(2), 40)),
      JsonObject(SearchBodyOf(Jobs(7), 7)), JsonObject(BadJobBody),
      JsonArray(VersionArray), JsonArray(EnvelopeArray)>>

\* Everything send().await can give.
Answers ==
    {TransportError}
    \cup {Response(s, BodySamples[i]) : s \in Statuses, i \in 1..Len(BodySamples)}

\* A job record holding every key that models.rs Job or lib.rs Job reads,
\* each of a JSON type both accept, but for salary_is_predicted.
FullJobJson(id, predicted) ==
    [k \in {"id", "created", "title", "description", "full_description",
            "redirect_url", "latitude", "longitude", "category", "location",
            "salary_min", "salary_max", "salary_is_predicted", "company",
            "contract_type", "contract_time", "adref"} |->
        CASE k = "id" -> <<"str", id>>
          [] k \in {"latitude", "longitude"} -> <<"frac", "30.27">>
          [] k \in {"salary_min", "salary_max"} -> <<"num", 50000>>
          [] k = "salary_is_predicted" -> predicted
          [] k = "category" ->
                <<"obj", [c \in {"tag", "label"} |-> <<"str", "it-jobs">>]>>
          [] k = "location" ->
                <<"obj", [c \in {"area", "display_name"} |->
                    IF c = "area"
                    THEN <<"arr", << <<"str", "US">>, <<"str", "Austin">> >> >>
                    ELSE <<"str", "Austin">>]>>
          [] k = "company" ->
                <<"obj", [c \in {"count", "canonical_name", "average_salary",
                                 "display_name"} |->
                    IF c \in {"count", "average_salary"}
                    THEN <<"num", 3>> ELSE <<"str", "Acme">>]>>
          [] k = "contract_type" -> <<"str", "permanent">>
          [] k = "contract_time" -> <<"str", "full_time">>
          [] OTHER -> <<"str", k>>]

\* The wire values tried for salary_is_predicted: strings, native booleans
\* and numbers.
PredictedWireValues ==
    {<<"str", "1">>, <<"str", "0">>, <<"str", "">>, <<"str", "true">>,
     <<"bool", TRUE>>, <<"bool", FALSE>>, <<"num", 1>>, <<"num", 0>>}

\* The wire values of the first record: the string flag, or a number.
FirstPredictedWireValues == {<<"str", "1">>, <<"num", 1>>}

\* A search answer of two records with the given wire values of
\* salary_is_predicted.
PredictedBody(v, w) ==
    JsonObject(SearchBodyOf(<< <<"obj", FullJobJson("1", v)>>,
                               <<"obj", FullJobJson("2", w)>> >>, 2))

PredictedAnswers ==
    {Response(OK, PredictedBody(v, w)) :
        v \in FirstPredictedWireValues, w \in PredictedWireValues}

\* ----------------------------------------------------------------- actions

AllMethods == ClientMethods \cup LibMethods

\* The builders created side by side from the one Client.
PeerIds == {1, 2}

\* A builder of its own: the struct, the struct as the Client handed it out
\* and the calls made on it since (history), the futures of its fetch calls
\* (stage and status) and the request of the last of them.
NoPeer ==
    [b |-> NoBuilder, made |-> NoBuilder, calls |-> <<>>, futures |-> <<>>,
     sent |-> None]

\* The future of a fetch call that awaits send(); calls (history) is the
\* number of setter calls made on the builder before the fetch call.
SentFuture(n) == [stage |-> "Sent", status |-> None, calls |-> n]
\* The future f once it awaits the body of an answer of status s.
ReadingFuture(f, s) == [f EXCEPT !.stage = "Reading", !.status = Some(s)]
\* The future f once its fetch call returned r.
ReturnedFuture(f, r) == [f EXCEPT !.stage = Resolution(r), !.status = None]

\* A fetch future borrows the builder until it has returned.
Alive(f) == f.stage \in {"Sent", "Reading"}
NoFetchAlive(fs) == \A i \in 1..Len(fs) : ~Alive(fs[i])

\* The state of the last fetch call: Idle before the first, Sent until it
\* returns, then Succeeded or Failed.
PhaseOf(fs) ==
    IF fs = <<>> THEN "Idle"
    ELSE IF Alive(fs[Len(fs)]) THEN "Sent"
    ELSE fs[Len(fs)].stage
phase == PhaseOf(futures)

Init ==
    /\ client = Client_new("id", "key")
    /\ b = NoBuilder
    /\ made = NoBuilder
    /\ lastArg = [m \in AllMethods |-> None]
    /\ locArgs = <<>>
    /\ ncalls = 0
    /\ futures = <<>>
    /\ sent = None
    /\ resp = None
    /\ result = None
    /\ gets = <<>>
    /\ outcomes = <<>>
    /\ peers = [i \in PeerIds |-> NoPeer]

CreateBuilder_eager ==
    /\ b = NoBuilder
    /\ \E impl \in Impls, route \in Routes :
        /\ b' = NewBuilder(impl, route)
        /\ sent' = Some(fetch_request(NewBuilder(impl, route), client))
        /\ gets' = send(gets, fetch_request(NewBuilder(impl, route), client))
    /\ made' = b'
    /\ futures' = <<SentFuture(0)>>
    /\ UNCHANGED <<client, lastArg, locArgs, ncalls, resp, result, outcomes,
                   peers>>

\* client.api_version() .. client.search() (request.rs, client.rs, lib.rs),
\* in one of the three iterations
CreateBuilder ==
    /\ b = NoBuilder
    /\ \E impl \in Impls, route \in Routes : b' = NewBuilder(impl, route)
    /\ made' = b'
    /\ UNCHANGED <<client, lastArg, locArgs, ncalls, futures, sent, resp,
                   result, gets, outcomes, peers>>

\* The calls client.query::<T>(endpoint) tried: a route with a country in
\* its path, the search route, and a name that is no route of the API.
QueryImpls == {"client", "lib"}
QueryCalls(impl) ==
    {<<"Categories", "categories">>,
     <<IF impl = "lib" THEN "lib_SearchResponse" ELSE "JobSearchResults",
       "search">>,
     <<"Version", "foo">>}

\* client.rs, lib.rs Client::query::<T>(endpoint), which is
\* RequestBuilder::<T>::new(client, endpoint): no country is selected.
ClientQuery ==
    /\ b = NoBuilder
    /\ \E impl \in QueryImpls : \E q \in QueryCalls(impl) :
        b' = QueryBuilder(impl, q[1], q[2])
    /\ made' = b'
    /\ UNCHANGED <<client, lastArg, locArgs, ncalls, futures, sent, resp,
                   result, gets, outcomes, peers>>

\* The call b.m(a) with an argument of A, for a method m the builder's type
\* has.  A setter takes the builder by value, so no fetch future borrows it:
\* every fetch called so far has returned.
CallWith(m, A) ==
    /\ b # NoBuilder
    /\ NoFetchAlive(futures)
    /\ m \in Methods(b)
    /\ \E a \in A :
        /\ b' = Apply(b, m, a)
        /\ lastArg' = [lastArg EXCEPT ![m] = Some(a)]
        /\ locArgs' = IF m = "location" THEN Append(locArgs, a) ELSE locArgs
    /\ ncalls' = ncalls + 1
    /\ UNCHANGED <<client, made, futures, sent, resp, result, gets, outcomes,
                   peers>>

\* The call b.m(a) with one of the arguments tried for m.
Call(m) == b # NoBuilder /\ CallWith(m, Args(b, m))

CallCountry == ncalls < MaxCalls /\ Call("country")
CallLocation == ncalls < MaxCalls /\ Call("location")
CallCategory == ncalls < MaxCalls /\ Call("category")
CallPage == ncalls < MaxCalls /\ Call("page")
CallWhat == ncalls < MaxCalls /\ Call("what")
CallMonths == ncalls < MaxCalls /\ Call("months")
CallWhatAnd == ncalls < MaxCalls /\ Call("what_and")
CallWhatPhrase == ncalls < MaxCalls /\ Call("what_phrase")
CallWhatOr == ncalls < MaxCalls /\ Call("what_or")
CallWhatExclude == ncalls < MaxCalls /\ Call("what_exclude")
CallPlace == ncalls < MaxCalls /\ Call("place")
CallWhere == ncalls < MaxCalls /\ Call("where")
CallTitleOnly == ncalls < MaxCalls /\ Call("title_only")
CallSalaryIncludeUnknown == ncalls < MaxCalls /\ Call("salary_include_unknown")
CallFullTime == ncalls < MaxCalls /\ Call("full_time")
CallPartTime == ncalls < MaxCalls /\ Call("part_time")
CallContract == ncalls < MaxCalls /\ Call("contract")
CallPermanent == ncalls < MaxCalls /\ Call("permanent")
CallCompany == ncalls < MaxCalls /\ Call("company")
CallDistance == ncalls < MaxCalls /\ Call("distance")
CallResultsPerPage == ncalls < MaxCalls /\ Call("results_per_page")
CallMaxDaysOld == ncalls < MaxCalls /\ Call("max_days_old")
CallSalaryMin == ncalls < MaxCalls /\ Call("salary_min")
CallSalaryMax == ncalls < MaxCalls /\ Call("salary_max")
CallSortBy == ncalls < MaxCalls /\ Call("sort_by")
CallSortDir == ncalls < MaxCalls /\ Call("sort_dir")

Fetch_consuming ==
    /\ b # NoBuilder
    /\ Len(gets) < MaxFetches
    /\ sent' = Some(fetch_request(b, client))
    /\ gets' = send(gets, fetch_request(b, client))
    /\ b' = made
    /\ futures' = Append(futures, SentFuture(ncalls))
    /\ resp' = None
    /\ result' = None
    /\ UNCHANGED <<client, made, lastArg, locArgs, ncalls, outcomes, peers>>

\* fetch() up to send(): the GET is issued and the future awaits the answer.
\* fetch borrows the builder, so it can be called again at any time, also
\* while earlier fetch futures are pending.
Fetch ==
    /\ b # NoBuilder
    /\ Len(gets) < MaxFetches
    /\ LET request == fetch_request(b, client)
       IN /\ sent' = Some(request)
          /\ gets' = send(gets, request)
    /\ futures' = Append(futures, SentFuture(ncalls))
    /\ resp' = None
    /\ result' = None
    /\ UNCHANGED <<client, b, made, lastArg, locArgs, ncalls, outcomes, peers>>

\* fetch awaits a second time when it reads the body of the answer:
\* request.rs reads the envelope of a non-200 answer and the response of a
\* 200 answer, client.rs and lib.rs read the body of a 200 answer only.
ReadsBody(bb, o) ==
    /\ o.kind = "response"
    /\ bb.impl = "request" \/ o.status = OK

\* The fetch call of future i returns, o being what the transport gave it.
Returns(i, o) ==
    /\ resp' = Some(o)
    /\ result' = Some(FetchResult(b, o))
    /\ futures' = [futures EXCEPT ![i] = ReturnedFuture(@, FetchResult(b, o))]
    /\ outcomes' = Append(outcomes, Resolution(FetchResult(b, o)))

\* send().await of one pending fetch resolves with an answer of A: the fetch
\* returns at once when it reads no body, and awaits the body otherwise.
ReceiveOf(A) ==
    /\ \E i \in 1..Len(futures) :
        /\ futures[i].stage = "Sent"
        /\ \E o \in A :
            IF ReadsBody(b, o)
            THEN /\ futures' = [futures EXCEPT ![i] = ReadingFuture(@, o.status)]
                 /\ UNCHANGED <<resp, result, outcomes>>
            ELSE Returns(i, o)
    /\ UNCHANGED <<client, b, made, lastArg, locArgs, ncalls, sent, gets, peers>>

\* json().await of one fetch resolves with the body of an answer of A that has
\* the status received, and the fetch runs to its return.
ReadBodyOf(A) ==
    /\ \E i \in 1..Len(futures) :
        /\ futures[i].stage = "Reading"
        /\ \E o \in A :
            /\ o.kind = "response"
            /\ Some(o.status) = futures[i].status
            /\ Returns(i, o)
    /\ UNCHANGED <<client, b, made, lastArg, locArgs, ncalls, sent, gets, peers>>

\* request.rs, client.rs, lib.rs fetch: send().await resolves.
Receive == gets # <<>> /\ ReceiveOf(Answers)

\* request.rs, client.rs, lib.rs fetch: the body is read and fetch returns.
ReadBody == gets # <<>> /\ ReadBodyOf(Answers)

\* The first fetch call on the builder.
FetchOnce == gets = <<>> /\ Fetch

Next ==
    \/ CreateBuilder \/ ClientQuery
    \/ CallCountry \/ CallLocation \/ CallCategory \/ CallPage \/ CallWhat
    \/ CallMonths \/ CallWhatAnd \/ CallWhatPhrase \/ CallWhatOr
    \/ CallWhatExclude \/ CallPlace \/ CallWhere \/ CallTitleOnly
    \/ CallSalaryIncludeUnknown \/ CallFullTime \/ CallPartTime
    \/ CallContract \/ CallPermanent \/ CallCompany \/ CallDistance
    \/ CallResultsPerPage \/ CallMaxDaysOld \/ CallSalaryMin \/ CallSalaryMax
    \/ CallSortBy \/ CallSortDir
    \/ FetchOnce

\* The builder chain up to the GET that the first fetch issues: every
\* method, chains of at most MaxCalls calls, the answer left pending.
Spec == Init /\ [][Next]_vars

\* One builder call of any method, made before the fetch.
Configure ==
    ncalls < MaxFetchCalls /\ gets = <<>> /\ \E m \in AllMethods : Call(m)

NextFetch ==
    CreateBuilder \/ ClientQuery \/ Configure \/ FetchOnce \/ Receive
    \/ ReadBody

\* One fetch and the answers to it, on builders configured by at most
\* MaxFetchCalls calls.
SpecFetch == Init /\ [][NextFetch]_vars

\* send().await resolves with a 200 whose records carry salary_is_predicted
\* in one of the wire forms.
ReceivePredicted == gets # <<>> /\ ReceiveOf(PredictedAnswers)

\* The body of that answer is read and fetch returns.
ReadBodyPredicted == gets # <<>> /\ ReadBodyOf(PredictedAnswers)

NextPredicted ==
    CreateBuilder \/ ClientQuery \/ FetchOnce \/ ReceivePredicted
    \/ ReadBodyPredicted

\* The decoding of job records, on a new builder of every route.
SpecPredicted == Init /\ [][NextPredicted]_vars

\* Every argument value of a method: both strings for every string setter,
\* every number for every numeric setter.
RepeatArgs(bb, m) ==
    CASE m \in StringMethods -> StrArgs
      [] m \in NumericMethods -> NumArgs
      [] OTHER -> Args(bb, m)

\* One method called again and again on the builder, with any of its
\* arguments each time.
RepeatCall ==
    /\ ncalls < MaxRepeatCalls
    /\ b # NoBuilder
    /\ \E m \in AllMethods :
        /\ \A x \in AllMethods \ {m} : lastArg[x] = None
        /\ CallWith(m, RepeatArgs(b, m))

NextRepeat == CreateBuilder \/ ClientQuery \/ RepeatCall \/ FetchOnce

\* Chains of up to MaxRepeatCalls calls of one method, then fetch.
SpecRepeat == Init /\ [][NextRepeat]_vars

\* A chain of location() calls only, long enough to overflow the eight slots.
LocationChain == Len(locArgs) < MaxLocCalls /\ Call("location")

NextLoc == CreateBuilder \/ ClientQuery \/ LocationChain \/ FetchOnce

SpecLoc == Init /\ [][NextLoc]_vars

\* The Client is built from any of the credentials.
AppIds == {"id1", "id2"}
AppKeys == {"key1", "key2"}

InitClient ==
    /\ client \in {Client_new(i, k) : i \in AppIds, k \in AppKeys}
    /\ b = NoBuilder
    /\ made = NoBuilder
    /\ lastArg = [m \in AllMethods |-> None]
    /\ locArgs = <<>>
    /\ ncalls = 0
    /\ futures = <<>>
    /\ sent = None
    /\ resp = None
    /\ result = None
    /\ gets = <<>>
    /\ outcomes = <<>>
    /\ peers = [i \in PeerIds |-> NoPeer]

\* The calls made on a builder that is fetched again and again.
RefetchMethods == {"country", "what", "page"}
RefetchArgs(m) ==
    CASE m = "country" -> {"UnitedKingdom"}
      [] m = "what" -> {"a", "b"}
      [] m = "page" -> {0, 2}

\* One of these calls, before a fetch, between two fetches or after them.
ConfigureFew ==
    /\ ncalls < MaxRefetchCalls
    /\ \E m \in RefetchMethods :
        /\ Call(m)
        /\ lastArg'[m][1] \in RefetchArgs(m)

NextClient ==
    CreateBuilder \/ ClientQuery \/ ConfigureFew \/ FetchOnce \/ Receive
    \/ ReadBody

\* One fetch with every answer, for a Client built from any of the
\* credentials.
SpecClient == InitClient /\ [][NextClient]_vars

\* The answers given to a builder that is fetched again and again.
FewAnswers ==
    {TransportError, Response(200, JsonObject(VersionBody)),
     Response(200, JsonObject(SearchBody)),
     Response(401, JsonObject(Envelope))}

ReceiveFew == gets # <<>> /\ ReceiveOf(FewAnswers)
ReadBodyFew == gets # <<>> /\ ReadBodyOf(FewAnswers)

NextRefetch ==
    CreateBuilder \/ ClientQuery \/ ConfigureFew \/ Fetch \/ ReceiveFew
    \/ ReadBodyFew

\* A builder fetched up to MaxFetches times, the fetch calls overlapping or
\* one after the other, setter calls where no fetch is pending.
SpecRefetch == Init /\ [][NextRefetch]_vars

NextRefetchLive == CreateBuilder \/ ClientQuery \/ Fetch \/ ReceiveFew \/ ReadBodyFew

\* A new builder fetched up to MaxFetches times, with a transport that
\* eventually answers every request and delivers every body.
SpecRefetchLive ==
    Init /\ [][NextRefetchLive]_vars /\ WF_vars(ReceiveFew)
    /\ WF_vars(ReadBodyFew)

\* ---------------------------------------------- builders side by side

\* The routes and the calls tried on them.
PeerRoutes == {"search"}
PeerMethods == {"country", "what", "page"}
PeerArgs(m) ==
    CASE m = "country" -> {"UnitedKingdom"}
      [] m = "what" -> {"a"}
      [] m = "page" -> {2}
\* The query() calls tried on them.
PeerQueryCalls(impl) == {q \in QueryCalls(impl) : q[2] = "search"}

\* The answers given to the builders fetched side by side.
PeerAnswers ==
    {TransportError, Response(200, JsonObject(VersionBody)),
     Response(200, JsonObject(SearchBody)), Response(401, JsonObject(Envelope))}

TotalPeerCalls == Len(peers[1].calls) + Len(peers[2].calls)
TotalPeerFetches == Len(peers[1].futures) + Len(peers[2].futures)

PeerUpdate_shared(ps, i, p) ==
    [j \in PeerIds |->
        IF j = i THEN p
        ELSE IF ps[j].b = NoBuilder \/ p.b = NoBuilder THEN ps[j]
        ELSE [ps[j] EXCEPT !.b.search_country = p.b.search_country]]

\* A builder owns its fields: what is done to builder i is written to it alone.
PeerUpdate(ps, i, p) == [ps EXCEPT ![i] = p]

\* client.api_version() .. client.search() for builder i
PeerCreate(i) ==
    /\ peers[i].b = NoBuilder
    /\ \E impl \in Impls, route \in PeerRoutes :
        peers' = PeerUpdate(peers, i,
                    [peers[i] EXCEPT !.b = NewBuilder(impl, route),
                                     !.made = NewBuilder(impl, route)])
    /\ UNCHANGED <<client, b, made, lastArg, locArgs, ncalls, futures, sent,
                   resp, result, gets, outcomes>>

\* client.query::<T>(endpoint) for builder i
PeerQuery(i) ==
    /\ peers[i].b = NoBuilder
    /\ \E impl \in QueryImpls : \E q \in PeerQueryCalls(impl) :
        peers' = PeerUpdate(peers, i,
                    [peers[i] EXCEPT !.b = QueryBuilder(impl, q[1], q[2]),
                                     !.made = QueryBuilder(impl, q[1], q[2])])
    /\ UNCHANGED <<client, b, made, lastArg, locArgs, ncalls, futures, sent,
                   resp, result, gets, outcomes>>

\* A setter call on builder i, none of its fetch futures pending
PeerCall(i) ==
    /\ peers[i].b # NoBuilder
    /\ NoFetchAlive(peers[i].futures)
    /\ TotalPeerCalls < MaxPeerCalls
    /\ \E m \in PeerMethods \cap Methods(peers[i].b) :
        \E a \in PeerArgs(m) \cap Args(peers[i].b, m) :
            peers' = PeerUpdate(peers, i,
                        [peers[i] EXCEPT !.b = Apply(@, m, a),
                                         !.calls = Append(@, <<m, a>>)])
    /\ UNCHANGED <<client, b, made, lastArg, locArgs, ncalls, futures, sent,
                   resp, result, gets, outcomes>>

\* fetch() on builder i, up to send()
PeerFetch(i) ==
    /\ peers[i].b # NoBuilder
    /\ TotalPeerFetches < MaxPeerFetches
    /\ peers' = PeerUpdate(peers, i,
                    [peers[i] EXCEPT
                        !.futures = Append(@, [stage |-> "Sent",
                                               status |-> None]),
                        !.sent = Some(fetch_request(peers[i].b, client))])
    /\ UNCHANGED <<client, b, made, lastArg, locArgs, ncalls, futures, sent,
                   resp, result, gets, outcomes>>

\* send().await of one pending fetch of builder i resolves
PeerReceive(i) ==
    /\ \E k \in 1..Len(peers[i].futures) :
        /\ peers[i].futures[k].stage = "Sent"
        /\ \E o \in PeerAnswers :
            peers' = PeerUpdate(peers, i,
                        [peers[i] EXCEPT !.futures[k] =
                            IF ReadsBody(peers[i].b, o)
                            THEN ReadingFuture(@, o.status)
                            ELSE ReturnedFuture(@, FetchResult(peers[i].b, o))])
    /\ UNCHANGED <<client, b, made, lastArg, locArgs, ncalls, futures, sent,
                   resp, result, gets, outcomes>>

\* the body of one fetch of builder i is read and the fetch returns
PeerReadBody(i) ==
    /\ \E k \in 1..Len(peers[i].futures) :
        /\ peers[i].futures[k].stage = "Reading"
        /\ \E o \in PeerAnswers :
            /\ o.kind = "response"
            /\ Some(o.status) = peers[i].futures[k].status
            /\ peers' = PeerUpdate(peers, i,
                        [peers[i] EXCEPT !.futures[k] =
                            ReturnedFuture(@, FetchResult(peers[i].b, o))])
    /\ UNCHANGED <<client, b, made, lastArg, locArgs, ncalls, futures, sent,
                   resp, result, gets, outcomes>>

NextPeers ==
    \E i \in PeerIds :
        \/ PeerCreate(i) \/ PeerQuery(i) \/ PeerCall(i) \/ PeerFetch(i)
        \/ PeerReceive(i) \/ PeerReadBody(i)

\* Two builders of one Client, their operations interleaved in every order.
SpecPeers == Init /\ [][NextPeers]_vars

\* country(c) for any country of the enum.
CountryChain ==
    /\ ncalls < MaxCountryCalls
    /\ b # NoBuilder
    /\ NoFetchAlive(futures)
    /\ "country" \in Methods(b)
    /\ \E c \in Country :
        /\ b' = Apply(b, "country", c)
        /\ lastArg' = [lastArg EXCEPT !["country"] = Some(c)]
    /\ ncalls' = ncalls + 1
    /\ UNCHANGED <<client, made, locArgs, futures, sent, resp, result, gets,
                   outcomes, peers>>

NextCountry == CreateBuilder \/ ClientQuery \/ CountryChain \/ FetchOnce

\* country() with each of the twenty countries, then fetch.
SpecCountry == Init /\ [][NextCountry]_vars

\* ------------------------------------------------------------------ claims

QueryKeys(q) == {q[i][1] : i \in 1..Len(q)}
QueryPairs(q) == Range(q)
\* How many pairs of q carry the key k.
KeyCount(q, k) == Cardinality({i \in 1..Len(q) : q[i][1] = k})

\* The path the API documents for a route.
RouteTemplate(route, code, pg) ==
    CASE route = "version" -> "/version"
      [] route = "search" -> "/jobs/" \o code \o "/search/" \o ToString(pg)
      [] OTHER -> "/jobs/" \o code \o "/" \o route

\* The code of the most recently selected country: the default is the US.
SelectedCode ==
    IF lastArg["country"] = None THEN "us"
    ELSE LET c == lastArg["country"][1]
         IN CASE c = "UnitedStates" -> "us"
              [] c = "UnitedKingdom" -> "gb"
              [] c = "NewZealand" -> "nl"
              [] c = "Netherlands" -> "nl"

\* The current page: 1 until a page(k) call with k > 0 stores another.
CurrentPage == IF b.search_page = None THEN 1 ELSE b.search_page[1]

\* C1: the URL fetch requests is the API root followed by the route's
\* template: /version, /jobs/{code}/{endpoint}, and /jobs/{code}/search/{page}
\* for search only, in all three iterations of the builder.
C1_UrlIsRouteTemplate ==
    sent # None =>
        sent[1].url = ROOT_URL \o RouteTemplate(b.endpoint, SelectedCode, CurrentPage)

EnvelopeKeys == <<"exception", "doc", "display">>

\* The envelope a body holds: exception, doc and display, all strings, as
\* the keys of an object or as the three elements of an array.
EnvelopeOf(body) ==
    IF ~body.json THEN None
    ELSE IF /\ body.value[1] = "obj"
            /\ Range(EnvelopeKeys) \subseteq DOMAIN body.value[2]
            /\ \A k \in Range(EnvelopeKeys) : body.value[2][k][1] = "str"
    THEN Some([k \in Range(EnvelopeKeys) |-> body.value[2][k][2]])
    ELSE IF /\ body.value[1] = "arr"
            /\ Len(body.value[2]) = 3
            /\ \A i \in 1..3 : body.value[2][i][1] = "str"
    THEN Some([k \in Range(EnvelopeKeys) |->
                body.value[2][CHOOSE i \in 1..3 : EnvelopeKeys[i] = k][2]])
    ELSE None

Answered == result # None /\ resp # None

\* C2: a status other than 200 gives a failure carrying exactly that status
\* (every iteration) and, in request.rs, the parsed envelope when the body
\* holds one and no envelope otherwise.
C2_Non200CarriesStatusAndEnvelope ==
    (Answered /\ resp[1].kind = "response" /\ resp[1].status # 200) =>
        /\ ~result[1].ok
        /\ result[1].http_status = Some(resp[1].status)
        /\ b.impl = "request" => result[1].api_error = EnvelopeOf(resp[1].body)

\* C2 witness: request.rs, a 401 with an envelope body, reported with both.
C2_Witness ==
    /\ Answered
    /\ b.impl = "request"
    /\ resp[1].kind = "response"
    /\ resp[1].status = 401
    /\ EnvelopeOf(resp[1].body) # None
    /\ result[1].http_status = Some(401)
    /\ result[1].api_error # None

\* What the caller of fetch can see of its result.
Returned(r) ==
    [ok |-> r.ok, value |-> r.value, http_status |-> r.http_status,
     api_error |-> r.api_error]

\* C3: a 200 whose body does not deserialize gives a failure with no status
\* attached, which differs from every failure reported for a non-200 answer.
C3_DecodeFailureHasNoStatus ==
    (Answered /\ resp[1].kind = "response" /\ resp[1].status = 200
        /\ ~result[1].ok) =>
        /\ result[1].http_status = None
        /\ \A s \in Statuses \ {200}, i \in 1..Len(BodySamples) :
              Returned(FetchResult(b, Response(s, BodySamples[i])))
                  # Returned(result[1])

\* C4: a transport failure gives a failure classified 400 Bad Request, with
\* no envelope, and no body is read or decoded.
C4_TransportFailureIsBadRequest ==
    (Answered /\ resp[1].kind = "error") =>
        /\ ~result[1].ok
        /\ result[1].http_status = Some(400)
        /\ result[1].api_error = None
        /\ result[1].body_read = <<>>
        /\ phase = "Failed"

\* C4 witness: a fetch of a request.rs builder that ended in a transport error.
C4_Witness ==
    /\ Answered
    /\ resp[1].kind = "error"
    /\ b.impl = "request"
    /\ phase = "Failed"

Min(x, y) == IF x < y THEN x ELSE y

NonLocationKeys == {"app_id", "app_key"} \cup Range(ParamFields)

\* The pairs of q that are no credential and no plain parameter field.
LocationPairs(q) == {i \in 1..Len(q) : q[i][1] \notin NonLocationKeys}

\* C5: after N location() calls the request carries exactly
\* location0..location{min(N,8)-1}, with the first min(N,8) values in call
\* order; the calls after the 8th change nothing.
C5_LocationsAreFirstEight ==
    b # NoBuilder =>
        LET q == Query(b, client)
            n == Min(Len(locArgs), 8)
        IN /\ Cardinality(LocationPairs(q)) = n
           /\ {q[i] : i \in LocationPairs(q)}
                = {<<LocationSlots[i], locArgs[i]>> : i \in 1..n}
           /\ sent # None => sent[1].query = q

\* C5 witness: nine calls, the ninth value unlike the eighth, and the request
\* sent with eight location parameters.
C5_Witness ==
    /\ Len(locArgs) = 9
    /\ locArgs[9] # locArgs[8]
    /\ sent # None
    /\ Cardinality(LocationPairs(sent[1].query)) = 8

\* The step is a call of method m with argument a.
CallStep(m, a) ==
    /\ ncalls' = ncalls + 1
    /\ lastArg' = [lastArg EXCEPT ![m] = Some(a)]
    /\ locArgs' = IF m = "location" THEN Append(locArgs, a) ELSE locArgs

\* C6: on a search builder results_per_page(0) and page(0) leave the stored
\* value unchanged, results_per_page(k) and page(k) with k > 0 store k.
C6_ZeroIsIgnored ==
    [][b.impl # "none" /\ b.endpoint = "search" =>
        /\ CallStep("results_per_page", 0) =>
              b'.parameters.results_per_page = b.parameters.results_per_page
        /\ CallStep("page", 0) => b'.search_page = b.search_page
        /\ \A k \in NumArgs \ {0} :
              /\ CallStep("results_per_page", k) =>
                    b'.parameters.results_per_page = Some(k)
              /\ CallStep("page", k) => b'.search_page = Some(k)]_vars

\* The query key a method stores under.
KeyOf(m) == IF m \in {"place", "where"} THEN "where" ELSE m

\* The keys of the fields holding a value, locations included.
StoredKeys(bb) ==
    IF bb.impl = "request"
    THEN {f \in Range(ParamFields) : bb.parameters[f] # None}
         \cup {LocationSlots[i] : i \in 1..Len(bb.parameters.locations)}
    ELSE {f \in Range(SlotParamFields) : bb.parameters[f] # None}

\* C7: the query keys fetch sends are app_id, app_key and the keys of the
\* fields a setter has stored; a field never set is not sent at all, and no
\* key is sent twice.
C7_UnsetFieldsAreOmitted ==
    sent # None =>
        LET q == sent[1].query
            keys == QueryKeys(q)
        IN /\ keys = {"app_id", "app_key"} \cup StoredKeys(b)
           /\ \A m \in AllMethods \ {"country", "page", "location"} :
                 KeyOf(m) \in keys =>
                    \E m2 \in AllMethods :
                        KeyOf(m2) = KeyOf(m) /\ lastArg[m2] # None
           /\ \A i \in 1..Len(LocationSlots) :
                 LocationSlots[i] \in keys => i <= Len(locArgs)
           /\ Cardinality(keys) = Len(q)

\* C7 witness: a request sent with what and distance set and nothing else.
C7_Witness ==
    /\ sent # None
    /\ lastArg["what"] # None
    /\ lastArg["distance"] # None
    /\ QueryKeys(sent[1].query) = {"app_id", "app_key", "what", "distance"}

\* The setters that take a value and store it in a parameter field.
ValueSetters ==
    StringMethods \cup (NumericMethods \ {"page"}) \cup {"sort_by", "sort_dir"}

\* The query-string form of an argument.
WireValue(m, a) ==
    CASE m \in NumericMethods -> ToString(a)
      [] m \in {"sort_by", "sort_dir"} ->
            (CASE a = "Default" -> "default" [] a = "Hybrid" -> "hybrid"
               [] a = "Date" -> "date" [] a = "Salary" -> "salary"
               [] a = "Relevance" -> "relevance"
               [] a = "Up" -> "up" [] a = "Down" -> "down")
      [] OTHER -> a

\* The request carries the last argument given to m, and nothing else for it.
SendsLastArg(m) ==
    LET q == sent[1].query
    IN /\ <<KeyOf(m), WireValue(m, lastArg[m][1])>> \in QueryPairs(q)
       /\ KeyCount(q, KeyOf(m)) = 1

\* The setter m was called at least twice, and no other method.
CalledSeveralTimes(m) ==
    /\ ncalls >= 2
    /\ lastArg[m] # None
    /\ \A x \in AllMethods \ {m} : lastArg[x] = None

\* C8 as stated: for every value setter called several times, the value
\* fetch serializes is the argument of the setter's last call.
C8_LastCallWins ==
    sent # None =>
        \A m \in ValueSetters : CalledSeveralTimes(m) => SendsLastArg(m)

\* A results_per_page(0) call, which request.rs and client.rs ignore.
IgnoredArg(bb, m, a) == m = "results_per_page" /\ a = 0 /\ bb.impl # "lib"

\* The value a call m(a) stores in the field of m.
StoredValue(m, a) == IF m \in {"sort_by", "sort_dir"} THEN WireValue(m, a) ELSE a

\* The query-string form of a stored value: a number in decimal digits, a
\* string as it is.
WireOfStored(m, v) == IF m \in NumericMethods THEN ToString(v) ELSE v

\* The request carries the value the field of m holds, once, or no pair of
\* that key when the field is empty.
SendsStoredValue(m) ==
    LET q == sent[1].query
        kept == b.parameters[KeyOf(m)]
    IN IF kept = None THEN KeyOf(m) \notin QueryKeys(q)
       ELSE /\ <<KeyOf(m), WireOfStored(m, kept[1])>> \in QueryPairs(q)
            /\ KeyCount(q, KeyOf(m)) = 1

\* C8 amended: for every value setter called several times, the value fetch
\* serializes is the argument of the last call, except that request.rs and
\* client.rs ignore results_per_page(0): that call leaves the builder as it
\* was, so the argument of the last call with a non-zero argument is sent,
\* and nothing when every call passed 0.  Every other call stores its
\* argument over the earlier one, and the request carries the stored value
\* alone.
C8_LastCallWinsExceptIgnoredZero ==
    /\ [][\A m \in ValueSetters : \A a \in RepeatArgs(b, m) :
            (b # NoBuilder /\ CallStep(m, a)) =>
                IF IgnoredArg(b, m, a) THEN b' = b
                ELSE b'.parameters[KeyOf(m)] = Some(StoredValue(m, a))]_vars
    /\ [](sent # None =>
            \A m \in ValueSetters :
                CalledSeveralTimes(m) =>
                    /\ SendsStoredValue(m)
                    /\ b.parameters[KeyOf(m)] # None =>
                          ~IgnoredArg(b, m, b.parameters[KeyOf(m)][1])
                    /\ ~IgnoredArg(b, m, lastArg[m][1]) => SendsLastArg(m))

\* C8 witness: results_per_page(1), results_per_page(2), results_per_page(0)
\* on a request.rs search: the 0 is ignored, the 1 left no trace and
\* results_per_page=2 is sent.
C8_Witness ==
    /\ sent # None
    /\ b.impl = "request"
    /\ ncalls = 3
    /\ CalledSeveralTimes("results_per_page")
    /\ lastArg["results_per_page"] = Some(0)
    /\ b.parameters.results_per_page = Some(2)
    /\ <<"results_per_page", "2">> \in QueryPairs(sent[1].query)
    /\ KeyCount(sent[1].query, "results_per_page") = 1

\* C9: a version request carries app_id and app_key only and has no country
\* segment in its path.
C9_VersionHasNoParameters ==
    (sent # None /\ b.endpoint = "version") =>
        /\ QueryKeys(sent[1].query) = {"app_id", "app_key"}
        /\ sent[1].url = ROOT_URL \o "/version"

SearchOnlyFields ==
    {"what_and", "what_or", "what_phrase", "what_exclude", "title_only",
     "where", "company", "distance", "results_per_page", "max_days_old",
     "salary_min", "salary_max", "sort_by", "sort_dir"} \cup FlagFields

\* C10: months is set on a history request only, the search-only fields and
\* the page on a search request only, and nothing on a categories or version
\* request.
C10_FieldsFollowRoute ==
    b # NoBuilder =>
        /\ b.parameters.months # None => b.endpoint = "history"
        /\ (\E f \in SearchOnlyFields : b.parameters[f] # None)
              => b.endpoint = "search"
        /\ (lastArg["page"] # None \/ b.search_page \notin {None, Some(1)})
              => b.endpoint = "search"
        /\ b.endpoint \in {"categories", "version"} =>
              StoredKeys(b) = {} /\ Query(b, client) = auth_params(client)

\* The URLs whose country segment is code: /jobs/{code}/{route}, with or
\* without a page after it.
UrlsOfCountry(code, route) ==
    {ROOT_URL \o "/jobs/" \o code \o "/" \o route}
    \cup {ROOT_URL \o "/jobs/" \o code \o "/" \o route \o "/" \o ToString(k) :
            k \in NumArgs \ {0}}

\* C11: on every route but version, a builder on which country() was never
\* called holds the country code us and requests a URL whose country segment
\* is us.
C11_DefaultCountryIsUs ==
    (/\ sent # None
     /\ b.endpoint \in Routes \ {"version"}
     /\ lastArg["country"] = None) =>
        /\ b.search_country = Some("us")
        /\ sent[1].url \in UrlsOfCountry("us", b.endpoint)

\* C12: every request carries app_id and app_key, once each, with the values
\* the Client was built from, and no step changes the Client.
C12_CredentialsAreSentUnchanged ==
    /\ [](sent # None =>
            /\ <<"app_id", client.app_id>> \in QueryPairs(sent[1].query)
            /\ <<"app_key", client.app_key>> \in QueryPairs(sent[1].query)
            /\ KeyCount(sent[1].query, "app_id") = 1
            /\ KeyCount(sent[1].query, "app_key") = 1)
    /\ [][client' = client]_vars

\* C12 witness: a Client built from id2 and key1 whose configured builder was
\* fetched, the fetch returned, and app_id=id2, app_key=key1 were sent.
C12_Witness ==
    /\ client = Client_new("id2", "key1")
    /\ ncalls = 1
    /\ phase = "Failed"
    /\ sent # None
    /\ <<"app_id", "id2">> \in QueryPairs(sent[1].query)
    /\ <<"app_key", "key1">> \in QueryPairs(sent[1].query)

\* The fetch calls started so far: those that returned and those in flight.
FetchCalls == Len(futures)

\* C13: as many GETs were issued as fetch calls were started, whatever the
\* calls' outcomes: the step in which a fetch returns, failed or not, sends
\* no request.
C13_OneGetPerFetch ==
    /\ [](Len(gets) = FetchCalls)
    /\ [][outcomes' # outcomes => gets' = gets]_vars

\* C13 witness: two fetch calls that both failed, two GETs issued.
C13_Witness ==
    /\ outcomes = <<"Failed", "Failed">>
    /\ Len(gets) = 2
    /\ phase = "Failed"

\* The builders whose flag setters take no argument.
NoArgFlags(bb) == bb.impl \in {"request", "client"}

\* C14: in request.rs and client.rs a flag setter stores "1" whatever was
\* stored before, a repeated call leaves the builder as it was, and the flag
\* is sent once, as "1", however often it was called.
C14_FlagSettersAreIdempotent ==
    /\ [][\A f \in FlagMethods :
            (NoArgFlags(b) /\ lastArg'[f] # None /\ CallStep(f, NoArg)) =>
                /\ b'.parameters[f] = Some("1")
                /\ b.parameters[f] = Some("1") => b' = b]_vars
    /\ [](\A f \in FlagMethods :
            (sent # None /\ NoArgFlags(b) /\ lastArg[f] # None) =>
                /\ <<f, "1">> \in QueryPairs(sent[1].query)
                /\ KeyCount(sent[1].query, f) = 1)

\* C14 witness: full_time() called twice on a request.rs search builder and
\* full_time=1 sent.
C14_Witness ==
    /\ sent # None
    /\ b.impl = "request"
    /\ ncalls = 2
    /\ lastArg["full_time"] # None
    /\ \A m \in AllMethods \ {"full_time"} : lastArg[m] = None
    /\ <<"full_time", "1">> \in QueryPairs(sent[1].query)

\* C15: in every builder of the repository a flag field is absent or "1",
\* the flag setters are called without an argument, and a flag that is "1"
\* is "1" after every builder call.
C15_FlagsAreAbsentOrOne ==
    /\ [](b # NoBuilder =>
            \A f \in FlagFields :
                /\ b.parameters[f] \in {None, Some("1")}
                /\ lastArg[f] \in {None, Some(NoArg)})
    /\ [][b # NoBuilder =>
            \A f \in FlagFields :
                b.parameters[f] = Some("1") => b'.parameters[f] = Some("1")]_vars

\* The search answers that are well formed: records as the API sends them
\* and a total.
WellFormedSearchBodies ==
    {JsonObject(SearchBodyOf(Jobs(n), c)) :
        n \in {0, 2, 7}, c \in {0, 7, 40}}

\* C16: in request.rs and client.rs, a 200 with a well-formed search body
\* gives success; the results are the body's records, as many and in the
\* same order, and count is the body's count, whatever results_per_page is.
C16_SearchRecordIsUnchanged ==
    (/\ Answered
     /\ resp[1].kind = "response"
     /\ resp[1].status = 200
     /\ b.impl # "lib"
     /\ b.endpoint = "search"
     /\ resp[1].body.json
     /\ resp[1].body \in WellFormedSearchBodies) =>
        /\ result[1].ok
        /\ LET v == result[1].value[1]
               o == resp[1].body.value[2]
           IN /\ Len(v.results) = Len(o.results[2])
              /\ \A i \in 1..Len(v.results) :
                    v.results[i].id = o.results[2][i][2].id[2]
              /\ v.count = o.count[2]

\* C16 witness: results_per_page(1), a body of 7 records, 7 records returned.
C16_Witness ==
    /\ Answered
    /\ b.impl = "request"
    /\ lastArg["results_per_page"] = Some(1)
    /\ result[1].ok
    /\ b.endpoint = "search"
    /\ Len(result[1].value[1].results) = 7
    /\ result[1].value[1].count = 7

\* C17: a step of fetch (the call, the arrival of the answer, the reading of
\* the body) leaves the builder and the Client as they were, so two fetch
\* calls with no setter call between them send the same request, the request
\* of the builder's fields, whatever the first returned.
C17_RefetchSendsTheSameRequest ==
    /\ [][(gets' # gets \/ futures' # futures) =>
            (b' = b /\ client' = client)]_vars
    /\ [](\A i \in 1..Len(futures) :
            /\ \A j \in 1..Len(futures) :
                  futures[i].calls = futures[j].calls => gets[i] = gets[j]
            /\ futures[i].calls = ncalls => gets[i] = fetch_request(b, client))

\* C17 witness: a builder with what set, fetched, failed, and fetched again
\* with what in the second request.
C17_Witness ==
    /\ Len(gets) = 2
    /\ futures[1].stage = "Failed"
    /\ futures[2].calls = futures[1].calls
    /\ lastArg["what"] = Some("b")
    /\ <<"what", "b">> \in QueryPairs(gets[2].query)

\* C18: while the request is Idle no GET has been issued, and the step that
\* leaves Idle or issues the first GET is a fetch: it goes to Sent, issues
\* the builder's request and is no construction and no setter call.
C18_FetchIsTheOnlyWayOutOfIdle ==
    /\ [](phase = "Idle" => (gets = <<>> /\ sent = None))
    /\ [][(phase = "Idle" /\ (phase' # "Idle" \/ gets' # gets)) =>
            /\ phase' = "Sent"
            /\ b # NoBuilder
            /\ b' = b
            /\ ncalls' = ncalls
            /\ gets' = <<fetch_request(b, client)>>]_vars

\* C18 witness: a request.rs builder after two setter calls, still Idle and
\* nothing sent.
C18_Witness ==
    /\ b.impl = "request"
    /\ ncalls = 2
    /\ phase = "Idle"
    /\ gets = <<>>

\* The response type of the builder's endpoint.
ResponseTypeOf(bb) ==
    IF bb.impl = "request" THEN Response_type(bb.endpoint)
    ELSE Struct_type(bb.T)

\* Fetch call i was started and has returned.
ResolvedFetch(i) == Len(futures) >= i /\ ~Alive(futures[i])

\* The answer is a 200 whose body deserializes into the response type of bb.
DecodableOk(bb, o) ==
    /\ o.kind = "response"
    /\ o.status = 200
    /\ Decode(ResponseTypeOf(bb), o.body) # None

\* C19: with a transport that answers and delivers the bodies, every fetch
\* that was started returns, also when several are pending at once; a fetch
\* that returned is Succeeded or Failed and stays so, the resolutions recorded
\* are never rewritten, and a fetch is Succeeded exactly when the answer is a
\* 200 whose body deserializes into the endpoint's response type.
C19_EveryFetchResolvesOnce ==
    /\ \A i \in 1..MaxFetches : (Len(futures) >= i) ~> ResolvedFetch(i)
    /\ [][\A i \in 1..Len(futures) :
            /\ ~Alive(futures[i]) =>
                  /\ futures[i].stage \in {"Succeeded", "Failed"}
                  /\ futures'[i] = futures[i]
            /\ (Alive(futures[i]) /\ ~Alive(futures'[i])) =>
                  /\ outcomes' = Append(outcomes, futures'[i].stage)
                  /\ (futures'[i].stage = "Succeeded")
                        <=> DecodableOk(b, resp'[1])]_vars
    /\ [][\A i \in 1..Len(outcomes) :
            Len(outcomes') >= i /\ outcomes'[i] = outcomes[i]]_vars
    /\ [](/\ Len(outcomes)
              = Cardinality({i \in 1..Len(futures) : ~Alive(futures[i])})
          /\ Answered =>
                /\ result[1].ok <=> DecodableOk(b, resp[1])
                /\ outcomes # <<>>
                /\ (outcomes[Len(outcomes)] = "Succeeded") <=> result[1].ok)

\* C19 witness: two fetches pending at once; the one called second failed
\* first, the one called first succeeded after it.
C19_Witness ==
    /\ Len(futures) = 2
    /\ futures[1].stage = "Succeeded"
    /\ futures[2].stage = "Failed"
    /\ outcomes = <<"Failed", "Succeeded">>
    /\ Answered

RECURSIVE Replay(_, _)
\* The builder that the calls, made in order on bb alone, give.
Replay(bb, calls) ==
    IF calls = <<>> THEN bb
    ELSE Replay(Apply(bb, calls[1][1], calls[1][2]), Tail(calls))

\* C20: each builder is what its own calls make of the builder the Client
\* handed out, and the request it sent last is the request of its own fields
\* as they were after some of its own calls; a step changes one builder at
\* most and never the Client.
C20_BuildersAreIndependent ==
    /\ [](\A i \in PeerIds :
            peers[i].b # NoBuilder =>
                /\ peers[i].b = Replay(peers[i].made, peers[i].calls)
                /\ peers[i].sent # None =>
                      \E k \in 0..Len(peers[i].calls) :
                          peers[i].sent[1] =
                              fetch_request(
                                  Replay(peers[i].made,
                                         SubSeq(peers[i].calls, 1, k)),
                                  client))
    /\ [][/\ client' = client
          /\ \A i, j \in PeerIds :
                (i # j /\ peers'[i] # peers[i]) => peers'[j] = peers[j]]_vars

\* C20 witness: two search builders, gb selected on the first only, both
\* fetches in flight at once.
C20_Witness ==
    /\ PhaseOf(peers[1].futures) = "Sent"
    /\ PhaseOf(peers[2].futures) = "Sent"
    /\ peers[1].b.endpoint = "search"
    /\ peers[2].b.endpoint = "search"
    /\ peers[1].calls # <<>>
    /\ peers[1].b.search_country = Some("gb")
    /\ peers[2].b.search_country = Some("us")

Letters ==
    {"a", "b", "c", "d", "e", "f", "g", "h", "i", "j", "k", "l", "m", "n", "o",
     "p", "q", "r", "s", "t", "u", "v", "w", "x", "y", "z"}

\* The strings of two lowercase letters.
TwoLowercaseLetters == {x \o y : x \in Letters, y \in Letters}

\* C21: both tables give nl for Netherlands and for NewZealand, two distinct
\* codes of two lowercase letters for every other pair of countries, and a
\* request built with country(NewZealand) goes to /jobs/nl/...
C21_NewZealandSharesNl ==
    /\ to_code("Netherlands") = "nl" /\ to_code("NewZealand") = "nl"
    /\ lib_to_code("Netherlands") = "nl" /\ lib_to_code("NewZealand") = "nl"
    /\ \A c \in Country :
        to_code(c) \in TwoLowercaseLetters /\ lib_to_code(c) = to_code(c)
    /\ \A c1, c2 \in Country :
        (c1 # c2 /\ {c1, c2} # {"Netherlands", "NewZealand"}) =>
            to_code(c1) # to_code(c2) /\ lib_to_code(c1) # lib_to_code(c2)
    /\ (sent # None /\ lastArg["country"] = Some("NewZealand")) =>
        /\ b.search_country = Some("nl")
        /\ sent[1].url \in UrlsOfCountry("nl", b.endpoint)

\* C21 witness: a request.rs search with country(NewZealand), sent to
\* /jobs/nl/search/1.
C21_Witness ==
    /\ sent # None
    /\ b.impl = "request"
    /\ b.endpoint = "search"
    /\ lastArg["country"] = Some("NewZealand")
    /\ sent[1].url = ROOT_URL \o "/jobs/nl/search/1"

\* The numeric setters without a guard on the value.
UnguardedNumericSetters ==
    {"distance", "max_days_old", "salary_min", "salary_max", "months"}

\* C22: distance, max_days_old, salary_min, salary_max and months store the
\* argument whatever it is: the field holds the last argument, zero included,
\* fetch sends it in decimal, and a salary_min above salary_max is stored and
\* sent as given.
C22_NumericSettersStoreAnyValue ==
    /\ \A m \in UnguardedNumericSetters :
          (b # NoBuilder /\ lastArg[m] # None) =>
              /\ b.parameters[m] = lastArg[m]
              /\ sent # None =>
                    <<m, ToString(lastArg[m][1])>> \in QueryPairs(sent[1].query)
    /\ [][\A m \in UnguardedNumericSetters : \A n \in NumArgs :
              CallStep(m, n) => b'.parameters[m] = Some(n)]_vars

\* C22 witness: a request.rs search sent with salary_min=2 and salary_max=0.
C22_Witness ==
    /\ sent # None
    /\ b.impl = "request"
    /\ b.endpoint = "search"
    /\ lastArg["salary_min"] = Some(2)
    /\ lastArg["salary_max"] = Some(0)
    /\ {<<"salary_min", "2">>, <<"salary_max", "0">>}
           \subseteq QueryPairs(sent[1].query)

\* The search URLs with a page of at least 1.
PagedSearchUrls ==
    {ROOT_URL \o "/jobs/" \o to_code(c) \o "/search/" \o ToString(k) :
        c \in Country, k \in NumArgs \ {0}}

\* The search URLs ending in /0.
PageZeroUrls ==
    {ROOT_URL \o "/jobs/" \o to_code(c) \o "/search/0" : c \in Country}

\* C23: a search request of request.rs or client.rs always holds a page of at
\* least 1 and a results_per_page that is absent or at least 1, whatever page
\* and results_per_page calls were made; the URL it sends never ends in /0 and
\* its query never carries results_per_page=0.
C23_PageAndPageSizeArePositive ==
    (b.impl \in {"request", "client"} /\ b.endpoint = "search") =>
        /\ b.search_page # None
        /\ b.search_page[1] >= 1
        /\ b.parameters.results_per_page = None
              \/ b.parameters.results_per_page[1] >= 1
        /\ sent # None =>
              /\ b.search_country # None => sent[1].url \in PagedSearchUrls
              /\ sent[1].url \notin PageZeroUrls
              /\ <<"results_per_page", "0">> \notin QueryPairs(sent[1].query)

\* C23 witness: page(0) and results_per_page(0) were both called on a
\* request.rs search, which is sent to page 1 without results_per_page.
C23_Witness ==
    /\ sent # None
    /\ b.impl = "request"
    /\ b.endpoint = "search"
    /\ lastArg["page"] = Some(0)
    /\ lastArg["results_per_page"] = Some(0)
    /\ sent[1].url = ROOT_URL \o "/jobs/us/search/1"
    /\ "results_per_page" \notin QueryKeys(sent[1].query)

\* C24: fetch succeeds only on an answer of status 200, a failure never
\* carries the status 200, and a failure carries an envelope only when the
\* server answered with a status other than 200: never after a transport
\* failure nor after a 200 whose body does not deserialize.
C24_SuccessOnly200EnvelopeOnlyNon200 ==
    Answered =>
        /\ result[1].ok =>
              resp[1].kind = "response" /\ resp[1].status = 200
        /\ ~result[1].ok => result[1].http_status # Some(200)
        /\ result[1].api_error # None =>
              /\ ~result[1].ok
              /\ resp[1].kind = "response"
              /\ resp[1].status # 200

\* C24 witness: a request.rs fetch answered 200 with an error envelope as
\* body: it fails with 400 and no envelope.
C24_Witness ==
    /\ Answered
    /\ b.impl = "request"
    /\ resp[1].kind = "response"
    /\ resp[1].status = 200
    /\ EnvelopeOf(resp[1].body) # None
    /\ ~result[1].ok
    /\ result[1].http_status = Some(400)
    /\ result[1].api_error = None

\* The locationN pairs of a query, as a set.
LocationPairSet(q) == {q[i] : i \in LocationPairs(q)}

\* The slots of a slot-layout builder that hold a location.
FilledSlots(bb) ==
    {i \in 1..Len(LocationSlots) : bb.parameters[LocationSlots[i]] # None}

\* The location() calls made so far, as calls to replay.
LocationCalls == [i \in 1..Len(locArgs) |-> <<"location", locArgs[i]>>]

\* C25: for every sequence of location() calls, the list of a request.rs
\* builder and the eight slots of a client.rs builder serialize to the same
\* set of locationN pairs, and the filled slots are location0..location{k-1}
\* with no gap.
C25_LocationEncodingsAgree ==
    /\ (/\ b # NoBuilder
        /\ b.endpoint \in Routes
        /\ "location" \in RequestMethods(b.endpoint)) =>
        LET listed == Replay(Endpoint_new(b.endpoint), LocationCalls)
            slotted == Replay(IF b.impl = "client" THEN made
                              ELSE Client_endpoint(b.endpoint), LocationCalls)
        IN /\ LocationPairSet(Query(listed, client))
                = LocationPairSet(Query(slotted, client))
           /\ FilledSlots(slotted) = 1..Cardinality(FilledSlots(slotted))
           /\ b.impl = "request" => b = listed
           /\ b.impl = "client" => b = slotted
    /\ (b # NoBuilder /\ b.impl # "request") =>
            FilledSlots(b) = 1..Min(Len(locArgs), LocationCap)

\* C25 witness: nine location() calls on a client.rs builder, the eight slots
\* filled, and the request.rs list of the same calls sent as the same pairs.
C25_Witness ==
    /\ Len(locArgs) = 9
    /\ locArgs[9] # locArgs[8]
    /\ b.impl = "client"
    /\ b.endpoint = "histogram"
    /\ FilledSlots(b) = 1..8
    /\ sent # None
    /\ LocationPairSet(sent[1].query)
          = LocationPairSet(Query(Replay(Endpoint_new("histogram"),
                                         LocationCalls), client))

\* The parameter fields a method may write: none for country and page.
OwnFields(bb, m) ==
    CASE m \in {"country", "page"} -> {}
      [] m = "location" ->
            IF bb.impl = "request" THEN {"locations"} ELSE Range(LocationSlots)
      [] OTHER -> {KeyOf(m)}

\* bb2 is bb but for the field of method m.
OnlyOwnFieldChanged(bb, bb2, m) ==
    /\ bb2.impl = bb.impl
    /\ bb2.endpoint = bb.endpoint
    /\ m # "country" => bb2.search_country = bb.search_country
    /\ m # "page" => bb2.search_page = bb.search_page
    /\ DOMAIN bb2.parameters = DOMAIN bb.parameters
    /\ \A f \in DOMAIN bb.parameters \ OwnFields(bb, m) :
          bb2.parameters[f] = bb.parameters[f]

\* C26: a call of a parameter setter changes its own field only: every other
\* parameter field, the country, the page and the Client stay as they are;
\* country() changes the country only and page() the page only, and the query
\* parameters are the same before and after either.  The method called on a
\* step is the one whose last argument changes; a call that repeats the last
\* argument of its method changes nothing, but for location().
C26_SettersChangeOwnFieldOnly ==
    [][ncalls' = ncalls + 1 =>
        LET called == {m \in AllMethods : lastArg'[m] # lastArg[m]}
        IN /\ client' = client
           /\ called \subseteq Methods(b)
           /\ \A m \in called :
                 /\ called = {m}
                 /\ OnlyOwnFieldChanged(b, b', m)
                 /\ m \in {"country", "page"} =>
                       Query(b', client') = Query(b, client)
           /\ called = {} =>
                 IF locArgs' # locArgs
                 THEN OnlyOwnFieldChanged(b, b', "location")
                 ELSE b' = b]_vars

\* C26 witness: page(2) then country(UnitedKingdom) on a request.rs search:
\* the page is still 2, the country gb, and no parameter is set.
C26_Witness ==
    /\ b.impl = "request"
    /\ b.endpoint = "search"
    /\ ncalls = 2
    /\ lastArg["page"] = Some(2)
    /\ lastArg["country"] = Some("UnitedKingdom")
    /\ b.search_page = Some(2)
    /\ b.search_country = Some("gb")
    /\ b.parameters = Parameters_default

\* The methods called so far.
CalledMethods == {m \in AllMethods : lastArg[m] # None}

RECURSIVE ReplayLastArgs(_, _)
\* The builder after one call of each method of S with its last argument, in
\* some order.
ReplayLastArgs(bb, S) ==
    IF S = {} THEN bb
    ELSE LET m == CHOOSE x \in S : TRUE
         IN ReplayLastArgs(Apply(bb, m, lastArg[m][1]), S \ {m})

\* C27: calls on different fields commute.  When every call so far was to a
\* different method, any two of them, made last in either order, give the
\* same builder, which is the builder the actual order gave, and so the same
\* request.  Two calls of one setter with different values, and two
\* location() calls, do not commute.
C27_CallsOnDistinctFieldsCommute ==
    /\ b # NoBuilder =>
        LET called == CalledMethods
        IN Cardinality(called) = ncalls =>
            /\ \A pair \in {p \in SUBSET called : Cardinality(p) = 2} :
                  LET m1 == CHOOSE m \in pair : TRUE
                      m2 == CHOOSE m \in pair : m # m1
                      a1 == lastArg[m1][1]
                      a2 == lastArg[m2][1]
                      before == ReplayLastArgs(made, called \ pair)
                  IN /\ KeyOf(m1) # KeyOf(m2)
                     /\ Apply(Apply(before, m1, a1), m2, a2) = b
                     /\ Apply(Apply(before, m2, a2), m1, a1) = b
            /\ sent # None => sent[1] = fetch_request(b, client)
    /\ (b # NoBuilder /\ ncalls = 0) =>
        \A m \in Methods(b) \cap {"what", "location"} :
            Apply(Apply(b, m, "a"), m, "b") # Apply(Apply(b, m, "b"), m, "a")

\* C27 witness: sort_dir and page, each called once on a client.rs search,
\* and the request sent.
C27_Witness ==
    /\ b.impl = "client"
    /\ b.endpoint = "search"
    /\ ncalls = 2
    /\ lastArg["sort_dir"] = Some("Down")
    /\ lastArg["page"] = Some(2)
    /\ sent # None
    /\ sent[1].url = ROOT_URL \o "/jobs/us/search/2"
    /\ <<"sort_dir", "down">> \in QueryPairs(sent[1].query)

\* The wire value of salary_is_predicted in record i of a search body.
PredictedOnWire(body, i) == body.value[2].results[2][i][2].salary_is_predicted

\* C28: a search answer whose records all give salary_is_predicted as a
\* string decodes, the flag of a record being true exactly for the string
\* "1"; one record that gives it as a native boolean or a number fails the
\* decoding of the whole response.
C28_PredictedFlagIsStringOne ==
    (/\ Answered
     /\ b.endpoint = "search"
     /\ resp[1] \in PredictedAnswers) =>
        LET wire == [i \in 1..2 |-> PredictedOnWire(resp[1].body, i)]
        IN IF \A i \in 1..2 : wire[i][1] = "str"
           THEN /\ result[1].ok
                /\ Len(result[1].value[1].results) = 2
                /\ \A i \in 1..2 :
                      result[1].value[1].results[i].salary_is_predicted
                          = (wire[i][2] = "1")
           ELSE ~result[1].ok

====
